---- MODULE Spec2Model ----
(***************************************************************************)
(* Model of the history-aware playlist curators:                          *)
(*   services/spotify_curator.py  (track-ID-keyed usage history)          *)
(*   services/youtube_curator.py  (date-keyed usage history)              *)
(*   enhanced_curator.py          (legacy track-ID-keyed history)         *)
(*                                                                         *)
(* Time is counted in whole hours; a calendar date is hour \div 24.        *)
(* Scores are kept in units of 1/Scale so that 0.1, popularity * 0.1 and   *)
(* days_since * 3 = hours / 8 are all integers.                            *)
(***************************************************************************)
EXTENDS Integers, Sequences, FiniteSets, TLC

VARIABLES
    svc,            \* which curator this process runs
    pool,           \* the reference playlist as returned by get_playlist_tracks
    target,         \* target_size
    file,           \* the history file on disk: [status, data]
    now,            \* wall clock, hours
    runs,           \* number of curation runs started
    pc,             \* position inside generate_curated_playlist
    usage_history,  \* the in-memory history dict of the current run
    loaded,         \* the history as it was read by the current run's load
    scores,         \* score of every pool position (track_scores / scored_tracks)
    scored,         \* whether the selector scored the pool in this run
    pass1,          \* tracks accepted by the first selection pass
    pass12,         \* tracks accepted by the first and second pass
    discInvoked,    \* whether the discovery engine was invoked
    needed,         \* deficit handed to discovery
    truly_fresh,    \* discovery tracks spliced into the selection
    selected,       \* the list returned by _smart_select_with_history
    reads,          \* reads of the history file in the current run
    writes,         \* writes of the history file in the current run
    apiWrites,      \* playlist create/replace calls issued in the current run
    log,            \* order of file and playlist effects in the current run
    idStore,        \* a track-ID-keyed history fed by RecordBoth
    dateStore,      \* a date-keyed history fed by the same record operations
    discOp,         \* the discovery operation called on its own, "none" before
    discovered_tracks, \* its combined search results
    unique_tracks,  \* its candidates after deduplication
    final_tracks,   \* the tracks it returned
    taste_profile,  \* the taste profile it analysed, <<>> when there is none
    responses,      \* what every search call of one batch answers or raises
    existing_video_ids, \* IDs the batch must not return
    issued,         \* the search calls the batch has issued
    batch_tracks,   \* the tracks the batch returned
    service_registry,   \* ServiceManager._service_registry (the registered types)
    discovery_registry, \* ServiceManager._discovery_registry
    curator_registry,   \* ServiceManager._curator_registry
    active_services,    \* ServiceManager._active_services: type -> service instance
    config_files,       \* the <type>.env file of every service type
    initCalls,          \* initialize_service calls made so far
    validateCalls,      \* validate_config calls per service type
    authCalls,          \* authenticate() calls per service type
    last_valid,         \* the last validate_config verdict per type, "none" before
    last_auth,          \* the last authenticate() outcome per type, "none" before
    next_instance,      \* identity of the next service object that is kept
    mgrOp,              \* the last initialize_service or get_* call and its result
    stats               \* the freshness statistics of the current run, <<>> before

vars == <<svc, pool, target, file, now, runs, pc, usage_history, loaded, scores,
          scored, pass1, pass12, discInvoked, needed, truly_fresh, selected,
          reads, writes, apiWrites, log, idStore, dateStore,
          discOp, discovered_tracks, unique_tracks, final_tracks, taste_profile,
          responses, existing_video_ids, issued, batch_tracks,
          service_registry, discovery_registry, curator_registry, active_services,
          config_files, initCalls, validateCalls, authCalls, last_valid, last_auth,
          next_instance, mgrOp, stats>>

storeVars == <<idStore, dateStore>>

discVars == <<discOp, discovered_tracks, unique_tracks, final_tracks, taste_profile>>

searchVars == <<responses, existing_video_ids, issued, batch_tracks>>

mgrVars == <<service_registry, discovery_registry, curator_registry, active_services,
             config_files, initCalls, validateCalls, authCalls, last_valid, last_auth,
             next_instance, mgrOp>>

(* no ServiceManager is in use *)
NoServiceManager ==
    /\ service_registry = {}
    /\ discovery_registry = {}
    /\ curator_registry = {}
    /\ active_services = <<>>
    /\ config_files = <<>>
    /\ initCalls = 0
    /\ validateCalls = <<>>
    /\ authCalls = <<>>
    /\ last_valid = <<>>
    /\ last_auth = <<>>
    /\ next_instance = 1
    /\ mgrOp = [op |-> "none"]

(* no search batch has been run on its own *)
NoSearchBatch ==
    /\ responses = <<>>
    /\ existing_video_ids = {}
    /\ issued = {}
    /\ batch_tracks = <<>>

(* no discovery operation has been called on its own *)
NoDiscoveryCall ==
    /\ discOp = "none"
    /\ discovered_tracks = <<>>
    /\ unique_tracks = <<>>
    /\ final_tracks = <<>>
    /\ taste_profile = <<>>

----------------------------------------------------------------------------
(* Bounds *)
MaxPool   == 3      \* longest reference playlist
MaxTarget == 3      \* largest target_size
MaxRuns   == 2      \* curation runs per behaviour
MaxDisc   == 2      \* longest list returned by the discovery engine
MaxCount  == 6      \* largest use count a score is computed for

Scale == 40         \* score unit is 1/40

(* Elapsed hours between two runs: inside each recency tier of both curators *)
Steps == {0, 12, 48, 100, 200, 800, 2200}

----------------------------------------------------------------------------
(* Tracks (TrackInfo).  artist is the comma-joined artist string, kept as  *)
(* the sequence of its names.                                              *)
T1 == [id |-> 1, name |-> "Run",  artist |-> <<"A", "B">>, popularity |-> 50]
T2 == [id |-> 2, name |-> "Lift", artist |-> <<"C">>,      popularity |-> 0]
T3 == [id |-> 3, name |-> "RUN",  artist |-> <<"A", "B">>, popularity |-> 80]
D1 == [id |-> 4, name |-> "Sprint", artist |-> <<"D">>,    popularity |-> 60]
D2 == [id |-> 5, name |-> "Calm Waters", artist |-> <<"E">>, popularity |-> 40]
T4 == [id |-> 6, name |-> "Push", artist |-> <<"A", "B">>, popularity |-> 20]
T5 == [id |-> 7, name |-> "Pull", artist |-> <<"C">>,      popularity |-> 30]
D3 == [id |-> 8, name |-> "Sprint ", artist |-> <<"D">>,   popularity |-> 10]
T6 == [id |-> 9, name |-> "Calm Dance", artist |-> <<"F">>, popularity |-> 70]
D4 == [id |-> 10, name |-> "Power Dance", artist |-> <<"G">>, popularity |-> 90]

RefCatalogue  == {T1, T2, T3}
DiscCatalogue == {T1, D1, D2}
(* reference tracks of the selector runs: three tracks of one artist pair, *)
(* two of one single artist                                               *)
SelCatalogue  == {T1, T2, T3, T4, T5}
TrackIds      == {t.id : t \in RefCatalogue \cup DiscCatalogue}

(* str.lower() on the track names in use *)
Lower(name) ==
    CASE name = "Run"  -> "run"
      [] name = "RUN"  -> "run"
      [] name = "Lift" -> "lift"
      [] name = "Sprint" -> "sprint"
      [] name = "Calm Waters" -> "calm waters"
      [] name = "Push" -> "push"
      [] name = "Pull" -> "pull"
      [] name = "Sprint " -> "sprint "
      [] name = "Calm Dance" -> "calm dance"
      [] name = "Power Dance" -> "power dance"
      [] OTHER -> name

(* str.strip() on the lowercased track names in use *)
Strip(name) ==
    CASE name = "sprint " -> "sprint"
      [] OTHER -> name

(* any(word in track_name_lower for word in slow_words) *)
HasSlowWords(lname) == lname \in {"calm waters", "calm dance"}

SeqsUpTo(S, n) == UNION {[1..k -> S] : k \in 0..n}

Range(s) == {s[i] : i \in 1..Len(s)}

Min(a, b) == IF a < b THEN a ELSE b
Max(a, b) == IF a > b THEN a ELSE b

(* Take without the slice bound *)
Take_NoLimit(s, n) == s

(* selected_tracks[:n] *)
Take(s, n) == [i \in 1..Min(n, Len(s)) |-> s[i]]

(* all orders random.shuffle can leave a list in *)
Shuffles(s) ==
    {[i \in 1..Len(s) |-> s[p[i]]] :
        p \in {q \in [1..Len(s) -> 1..Len(s)] :
                   \A i, j \in 1..Len(s) : i # j => q[i] # q[j]}}

(* list.sort(key=score, reverse=True): stable, descending *)
SortedOrder(sc) ==
    LET n == Len(sc)
        rank(i) == 1 + Cardinality({j \in 1..n :
                        sc[j] > sc[i] \/ (sc[j] = sc[i] /\ j < i)})
    IN  [k \in 1..n |-> CHOOSE i \in 1..n : rank(i) = k]

EmptyHistory == <<>>

(* no history file in the working directory *)
MissingFile  == [status |-> "missing", data |-> EmptyHistory]

----------------------------------------------------------------------------
(* SpotifyCurator *)

(* [artist.strip() for artist in track.artist.split(',')] *)
SplitArtists(a) == IF Len(a) = 0 THEN <<"">> ELSE a

(* artist_counts = Counter() over every artist of every reference track *)
ArtistCounts(tracks, name) ==
    Cardinality({<<i, j>> \in (1..Len(tracks)) \X (1..2) :
                    /\ j <= Len(SplitArtists(tracks[i].artist))
                    /\ SplitArtists(tracks[i].artist)[j] = name})

SpUsageCount(h, id) == IF id \in DOMAIN h THEN h[id].count ELSE 0

RECURSIVE SpArtistTerm(_, _, _)
SpArtistTerm(artists, tracks, k) ==
    IF k > Len(artists) THEN 0
    ELSE LET f == ArtistCounts(tracks, artists[k])
             freq == IF f = 0 THEN 1 ELSE f
             d == IF freq = 1 THEN 15 ELSE IF freq <= 3 THEN 8 ELSE -5
         IN  d * Scale + SpArtistTerm(artists, tracks, k + 1)

(* 0.1, the value a blocked track scores and the minimum of every score *)
SpFloor == Scale \div 10

(* the usage term with one penalty for every count above three *)
SpUsageTerm_Flat(usage_count) ==
    IF usage_count = 0 THEN 80
    ELSE IF usage_count = 1 THEN 40
    ELSE IF usage_count = 2 THEN 15
    ELSE IF usage_count = 3 THEN -20
    ELSE -15

(* Factor 1 of _calculate_track_score: what the use count adds to the score *)
SpUsageTerm(usage_count) ==
    IF usage_count = 0 THEN 80
    ELSE IF usage_count = 1 THEN 40
    ELSE IF usage_count = 2 THEN 15
    ELSE IF usage_count = 3 THEN -20
    ELSE -(usage_count * 15)

SpCalculateTrackScore(track, h, tracks, t, jitter) ==
    LET usage_count == SpUsageCount(h, track.id)
        usageTerm == SpUsageTerm(usage_count)
        hasLast == track.id \in DOMAIN h
        hours_since == IF hasLast THEN t - h[track.id].last_used ELSE 0
        recency == IF ~hasLast THEN 30 * Scale
                   ELSE IF hours_since < 24 THEN -80 * Scale
                   ELSE IF hours_since < 72 THEN -50 * Scale
                   ELSE IF hours_since < 168 THEN -25 * Scale
                   ELSE Min(hours_since * 5, 50 * Scale)
        popTerm == IF track.popularity # 0 THEN (track.popularity * Scale) \div 10 ELSE 0
        score == (100 + usageTerm) * Scale + recency
                 + SpArtistTerm(SplitArtists(track.artist), tracks, 1)
                 + popTerm + jitter
    IN  IF hasLast /\ hours_since < 12 THEN SpFloor
        ELSE Max(score, SpFloor)

(* SpPass1 without the minimum-score test of the first loop *)
RECURSIVE SpPass1_NoMinScore(_, _, _, _, _, _)
SpPass1_NoMinScore(tracks, sc, order, k, tgt, acc) ==
    IF k > Len(order) \/ Len(acc.sel) >= tgt THEN acc.sel
    ELSE LET track == tracks[order[k]]
             track_artists == Range(SplitArtists(track.artist))
             artist_overlap == Cardinality(track_artists \cap acc.used)
         IN  IF artist_overlap <= 1 \/ Len(acc.sel) < tgt \div 2
             THEN SpPass1_NoMinScore(tracks, sc, order, k + 1, tgt,
                          [sel |-> Append(acc.sel, track),
                           used |-> acc.used \cup track_artists])
             ELSE SpPass1_NoMinScore(tracks, sc, order, k + 1, tgt, acc)

(* first loop of _smart_select_with_history, over the sorted track_scores *)
RECURSIVE SpPass1(_, _, _, _, _, _)
SpPass1(tracks, sc, order, k, tgt, acc) ==
    IF k > Len(order) \/ Len(acc.sel) >= tgt THEN acc.sel
    ELSE LET track == tracks[order[k]]
             track_artists == Range(SplitArtists(track.artist))
             artist_overlap == Cardinality(track_artists \cap acc.used)
         IN  IF sc[order[k]] < 5 * Scale
             THEN SpPass1(tracks, sc, order, k + 1, tgt, acc)
             ELSE IF artist_overlap <= 1 \/ Len(acc.sel) < tgt \div 2
             THEN SpPass1(tracks, sc, order, k + 1, tgt,
                          [sel |-> Append(acc.sel, track),
                           used |-> acc.used \cup track_artists])
             ELSE SpPass1(tracks, sc, order, k + 1, tgt, acc)

(* acceptable_tracks of the fallback loop *)
RECURSIVE SpAcceptable(_, _, _, _, _, _, _)
SpAcceptable(tracks, sc, order, k, sel, h, t) ==
    IF k > Len(order) THEN <<>>
    ELSE LET track == tracks[order[k]]
             used == track.id \in DOMAIN h
             ok == /\ track \notin Range(sel)
                   /\ sc[order[k]] > 10 * Scale
                   /\ \/ ~used
                      \/ t - h[track.id].last_used >= 12
                      \/ h[track.id].count <= 2
             rest == SpAcceptable(tracks, sc, order, k + 1, sel, h, t)
         IN  IF ok THEN <<track>> \o rest ELSE rest

SpPass2(tracks, sc, order, tgt, sel, h, t) ==
    IF Len(sel) < tgt
    THEN sel \o Take(SpAcceptable(tracks, sc, order, 1, sel, h, t), tgt - Len(sel))
    ELSE sel

(* _discover_tracks: the search results with repeated IDs removed, in order *)
RECURSIVE SpDiscoverTracks(_, _, _)
SpDiscoverTracks(found, k, seen_ids) ==
    IF k > Len(found) THEN <<>>
    ELSE IF found[k].id \in seen_ids
         THEN SpDiscoverTracks(found, k + 1, seen_ids)
         ELSE <<found[k]>> \o SpDiscoverTracks(found, k + 1, seen_ids \cup {found[k].id})

(* SpTrulyFresh without the test against the usage history *)
RECURSIVE SpTrulyFresh_NoHistoryCheck(_, _, _, _, _, _)
SpTrulyFresh_NoHistoryCheck(fresh, k, tracks, sel, h, need) ==
    IF k > Len(fresh) \/ need <= 0 THEN <<>>
    ELSE LET track == fresh[k]
             ok == /\ track.id \notin {r.id : r \in Range(tracks)}
                   /\ Lower(track.name) \notin {Lower(r.name) : r \in Range(tracks)}
                   /\ track \notin Range(sel)
                   /\ ~HasSlowWords(Lower(track.name))
         IN  IF ok
             THEN <<track>> \o SpTrulyFresh_NoHistoryCheck(fresh, k + 1, tracks, sel, h, need - 1)
             ELSE SpTrulyFresh_NoHistoryCheck(fresh, k + 1, tracks, sel, h, need)

(* get_user_saved_tracks and get_recently_played_ids: the user has liked   *)
(* the track D1 and has lately played the reference track T2               *)
SavedTrackIds == {D1.id}
RecentlyPlayedIds == {T2.id}

(* known_track_ids of analyze_taste_profile *)
KnownTrackIds(reference_tracks) ==
    {r.id : r \in Range(reference_tracks)} \cup SavedTrackIds \cup RecentlyPlayedIds

(* filter of fresh_tracks into truly_fresh *)
RECURSIVE SpTrulyFresh(_, _, _, _, _, _)
SpTrulyFresh(fresh, k, tracks, sel, h, need) ==
    IF k > Len(fresh) \/ need <= 0 THEN <<>>
    ELSE LET track == fresh[k]
             ok == /\ track.id \notin DOMAIN h
                   /\ track.id \notin {r.id : r \in Range(tracks)}
                   /\ Lower(track.name) \notin {Lower(r.name) : r \in Range(tracks)}
                   /\ track \notin Range(sel)
                   /\ ~HasSlowWords(Lower(track.name))
         IN  IF ok
             THEN <<track>> \o SpTrulyFresh(fresh, k + 1, tracks, sel, h, need - 1)
             ELSE SpTrulyFresh(fresh, k + 1, tracks, sel, h, need)

(* SpUpdateUsageHistory with a new record starting at count 1 *)
RECURSIVE SpUpdateUsageHistory_CountFromOne(_, _, _, _)
SpUpdateUsageHistory_CountFromOne(h, sel, k, t) ==
    IF k > Len(sel) THEN h
    ELSE LET id == sel[k].id
             old == IF id \in DOMAIN h THEN h[id]
                    ELSE [count |-> 1, first_used |-> t, last_used |-> t]
             new == [old EXCEPT !.count = old.count + 1, !.last_used = t]
             h2 == [x \in DOMAIN h \cup {id} |-> IF x = id THEN new ELSE h[x]]
         IN  SpUpdateUsageHistory_CountFromOne(h2, sel, k + 1, t)

(* SpUpdateUsageHistory stamping first_used instead of last_used *)
RECURSIVE SpUpdateUsageHistory_StampFirst(_, _, _, _)
SpUpdateUsageHistory_StampFirst(h, sel, k, t) ==
    IF k > Len(sel) THEN h
    ELSE LET id == sel[k].id
             old == IF id \in DOMAIN h THEN h[id]
                    ELSE [count |-> 0, first_used |-> t, last_used |-> t]
             new == [old EXCEPT !.count = old.count + 1, !.first_used = t]
             h2 == [x \in DOMAIN h \cup {id} |-> IF x = id THEN new ELSE h[x]]
         IN  SpUpdateUsageHistory_StampFirst(h2, sel, k + 1, t)

(* _update_usage_history: the dict after the loop over selected_tracks *)
RECURSIVE SpUpdateUsageHistory(_, _, _, _)
SpUpdateUsageHistory(h, sel, k, t) ==
    IF k > Len(sel) THEN h
    ELSE LET id == sel[k].id
             old == IF id \in DOMAIN h THEN h[id]
                    ELSE [count |-> 0, first_used |-> t, last_used |-> t]
             new == [old EXCEPT !.count = old.count + 1, !.last_used = t]
             h2 == [x \in DOMAIN h \cup {id} |-> IF x = id THEN new ELSE h[x]]
         IN  SpUpdateUsageHistory(h2, sel, k + 1, t)

(* SpLoadUsageHistory that only tests that the file exists *)
SpLoadUsageHistory_NoCatch(f) == IF f.status # "missing" THEN f.data ELSE EmptyHistory

(* _load_usage_history: {} unless the file exists and json.load succeeds *)
SpLoadUsageHistory(f) == IF f.status = "ok" THEN f.data ELSE EmptyHistory

(* a history file whose text no longer parses; data is what it once held *)
SpCorruptFile ==
    [status |-> "corrupt",
     data |-> [x \in {T1.id} |-> [count |-> 1, first_used |-> 0, last_used |-> 0]]]

----------------------------------------------------------------------------
(* YouTubeCurator: history is a map from calendar date to the bucket       *)
(* written that day.                                                       *)

RetentionBuckets == 60

(* datetime.now().strftime('%Y-%m-%d'), as a day number *)
DateOf(t) == t \div 24

(* str.lower() on one artist name *)
LowerWord(w) ==
    CASE w = "A" -> "a" [] w = "B" -> "b" [] w = "C" -> "c"
      [] w = "D" -> "d" [] w = "E" -> "e" [] OTHER -> w

LowerArtist(a) == [i \in 1..Len(a) |-> LowerWord(a[i])]

(* the dict _update_usage_history stores for one track *)
YtTrackData(track) == [id |-> track.id, name |-> track.name, artist |-> track.artist]

(* inner loop of _calculate_track_score: match by ID or by name+artist *)
YtTrackUsed(track, bucket) ==
    \E k \in 1..Len(bucket.tracks) :
        LET used_track == bucket.tracks[k]
        IN  \/ used_track.id = track.id
            \/ /\ Lower(track.name) # ""
               /\ Lower(used_track.name) # ""
               /\ Lower(track.name) = Lower(used_track.name)
               /\ \/ LowerArtist(track.artist) = LowerArtist(used_track.artist)
                  \/ Len(track.artist) = 0
                  \/ Len(used_track.artist) = 0

YtUsedDates(track, h) == {d \in DOMAIN h : YtTrackUsed(track, h[d])}

(* times_used *)
YtUsageCount(track, h) == Cardinality(YtUsedDates(track, h))

(* usage_penalty + recency_penalty accumulated over the history buckets *)
YtPenalties(track, h, t) ==
    LET dates == YtUsedDates(track, h)
        times_used == Cardinality(dates)
        days_ago(d) == DateOf(t) - d
        recency_penalty ==
              1000 * Cardinality({d \in dates : days_ago(d) = 0})
            + 500 * Cardinality({d \in dates : days_ago(d) # 0 /\ days_ago(d) < 7})
            + 100 * Cardinality({d \in dates : days_ago(d) >= 7 /\ days_ago(d) < 30})
            + 25 * Cardinality({d \in dates : days_ago(d) >= 30})
        usage_penalty == 25 * times_used * (times_used + 1)
    IN  usage_penalty + recency_penalty

(* 1.0, the minimum score *)
YtFloor == 1 * Scale

(* YtFinalScore without the clamp to the minimum *)
YtFinalScore_NoFloor(penalties, jitter) == (100 - penalties) * Scale + jitter

(* base score minus penalties, plus jitter, clamped to the minimum *)
YtFinalScore(penalties, jitter) ==
    Max((100 - penalties) * Scale + jitter, YtFloor)

YtCalculateTrackScore(track, h, t, jitter) ==
    YtFinalScore(YtPenalties(track, h, t), jitter)

YtArtistCount(sel, artist) == Cardinality({i \in 1..Len(sel) : sel[i].artist = artist})

(* first pass of _ensure_artist_diversity *)
RECURSIVE YtPass1(_, _, _, _, _)
YtPass1(tracks, order, k, tgt, sel) ==
    IF k > Len(order) \/ Len(sel) >= tgt THEN sel
    ELSE LET track == tracks[order[k]]
         IN  IF YtArtistCount(sel, track.artist) < Max(1, tgt \div 10)
             THEN YtPass1(tracks, order, k + 1, tgt, Append(sel, track))
             ELSE YtPass1(tracks, order, k + 1, tgt, sel)

(* YtRemaining without the test against the tracks already selected *)
RECURSIVE YtRemaining_All(_, _, _, _)
YtRemaining_All(tracks, order, k, sel) ==
    IF k > Len(order) THEN <<>>
    ELSE <<tracks[order[k]]>> \o YtRemaining_All(tracks, order, k + 1, sel)

(* remaining_tracks of the second pass, before random.shuffle *)
RECURSIVE YtRemaining(_, _, _, _)
YtRemaining(tracks, order, k, sel) ==
    IF k > Len(order) THEN <<>>
    ELSE LET track == tracks[order[k]]
             rest == YtRemaining(tracks, order, k + 1, sel)
         IN  IF track \notin Range(sel) THEN <<track>> \o rest ELSE rest

(* stable_tracks + random_tracks: the first int(len * 0.7) tracks as they  *)
(* are, the rest in any order random.shuffle can leave them                *)
YtFinalOrders(sel) ==
    LET stable_count == (Len(sel) * 7) \div 10
    IN  {SubSeq(sel, 1, stable_count) \o tail :
            tail \in Shuffles(SubSeq(sel, stable_count + 1, Len(sel)))}

(* _deduplicate_tracks of the discovery engine *)
RECURSIVE YtDeduplicate(_, _, _, _)
YtDeduplicate(tracks, k, seen_ids, seen_names) ==
    IF k > Len(tracks) THEN <<>>
    ELSE LET track == tracks[k]
             normalized_name == Strip(Lower(track.name))
         IN  IF track.id \in seen_ids \/ normalized_name \in seen_names
             THEN YtDeduplicate(tracks, k + 1, seen_ids, seen_names)
             ELSE <<track>> \o YtDeduplicate(tracks, k + 1, seen_ids \cup {track.id},
                                             seen_names \cup {normalized_name})

(* _load_used_track_ids: the IDs in the history file, {} when unreadable *)
YtLoadUsedTrackIds(f) ==
    IF f.status = "ok"
    THEN UNION {{f.data[d].tracks[k].id : k \in 1..Len(f.data[d].tracks)} : d \in DOMAIN f.data}
    ELSE {}

(* _extract_tokens(name + ' ' + artist): lowercased words longer than two   *)
(* characters that are not stopwords                                        *)
YtExtractTokens(track) ==
    CASE track.name \in {"Run", "RUN"} -> {"run"}
      [] track.name = "Lift" -> {"lift"}
      [] track.name = "Calm Dance" -> {"calm", "dance"}
      [] track.name = "Push" -> {"push"}
      [] track.name = "Pull" -> {"pull"}
      [] OTHER -> {}

(* analyze_taste_profile: reachable is whether get_playlist_tracks         *)
(* returned, derived are the genres _derive_genres_from_artists found      *)
YtAnalyzeTasteProfile(reference_tracks, reachable, derived) ==
    IF ~reachable
    THEN [artists |-> {}, genres |-> {}, track_count |-> 0, known_track_ids |-> {},
          reference_track_names |-> {}, taste_tokens |-> {}]
    ELSE IF reference_tracks = <<>>
    THEN [artists |-> {}, genres |-> {}, track_count |-> 0, known_track_ids |-> {},
          reference_track_names |-> {}]
    ELSE [artists |-> UNION {Range(SplitArtists(t.artist)) : t \in Range(reference_tracks)},
          genres |-> derived,
          track_count |-> Len(reference_tracks),
          top_artist_counts |->
              [a \in UNION {Range(SplitArtists(t.artist)) : t \in Range(reference_tracks)} |->
                  ArtistCounts(reference_tracks, a)],
          known_track_ids |-> {t.id : t \in Range(reference_tracks)},
          reference_track_names |-> {Strip(Lower(t.name)) : t \in Range(reference_tracks)},
          taste_tokens |-> UNION {YtExtractTokens(t) : t \in Range(reference_tracks)}]

(* taste_profile.get(key, default) *)
ProfileGet(profile, key, default) ==
    IF key \in DOMAIN profile THEN profile[key] ELSE default

(* the edm_like words a lowercased title contains *)
EdmLike == {"edm", "trap", "dubstep", "electro", "dance", "remix", "mix"}

(* any(w in name_l for w in edm_like) *)
HasEdmWords(lname) == lname \in {"calm dance", "power dance"}

(* freshness filter of discover_tracks *)
RECURSIVE YtFilterFresh(_, _, _, _, _, _)
YtFilterFresh(tracks, k, reference_ids, reference_names, used_ids, allowed_tokens) ==
    IF k > Len(tracks) THEN <<>>
    ELSE LET tr == tracks[k]
             rest == YtFilterFresh(tracks, k + 1, reference_ids, reference_names,
                                   used_ids, allowed_tokens)
             name_l == Strip(Lower(tr.name))
         IN  IF \/ tr.id \in reference_ids
                \/ name_l \in reference_names
                \/ tr.id \in used_ids
                \/ HasSlowWords(name_l)
                \/ HasEdmWords(name_l) /\ EdmLike \cap allowed_tokens = {}
             THEN rest ELSE <<tr>> \o rest

(* discover_tracks(reference_playlist_id, target_size) given the taste      *)
(* profile and the search results                                           *)
YtDiscoverTracks(found, profile, f, size) ==
    LET reference_ids == ProfileGet(profile, "known_track_ids", {})
        reference_names == ProfileGet(profile, "reference_track_names", {})
        allowed_tokens == ProfileGet(profile, "genres", {})
                              \cup ProfileGet(profile, "taste_tokens", {})
    IN  Take(YtFilterFresh(YtDeduplicate(found, 1, {}, {}), 1, reference_ids,
                           reference_names, YtLoadUsedTrackIds(f), allowed_tokens), size)

(* the curator's own filter of the discovered tracks *)
RECURSIVE YtTrulyFresh(_, _, _, _)
YtTrulyFresh(fresh, k, existing_ids, need) ==
    IF k > Len(fresh) \/ need <= 0 THEN <<>>
    ELSE LET track == fresh[k]
         IN  IF track.id \notin existing_ids /\ ~HasSlowWords(Lower(track.name))
             THEN <<track>> \o YtTrulyFresh(fresh, k + 1, existing_ids, need - 1)
             ELSE YtTrulyFresh(fresh, k + 1, existing_ids, need)

(* history[today] = {...}, then keep the RetentionBuckets newest date keys *)
YtUpdateUsageHistory(h, sel, t) ==
    LET today == DateOf(t)
        bucket == [tracks |-> [i \in 1..Len(sel) |-> YtTrackData(sel[i])],
                   track_count |-> Len(sel),
                   timestamp |-> t]
        h2 == [d \in DOMAIN h \cup {today} |-> IF d = today THEN bucket ELSE h[d]]
        keep == {d \in DOMAIN h2 :
                    Cardinality({e \in DOMAIN h2 : e > d}) < RetentionBuckets}
    IN  [d \in keep |-> h2[d]]

(* _load_usage_history: {} unless the file exists and json.load succeeds *)
YtLoadUsageHistory(f) == IF f.status = "ok" THEN f.data ELSE EmptyHistory

(* a history file whose text no longer parses; data is what it once held *)
YtCorruptFile ==
    [status |-> "corrupt",
     data |-> [d \in {0} |-> [tracks |-> <<YtTrackData(T1)>>, track_count |-> 1,
                              timestamp |-> 0]]]

(* the history file left by a run earlier on the first day that selected T1 *)
YtTodayFile ==
    [status |-> "ok",
     data |-> [d \in {0} |-> [tracks |-> <<YtTrackData(T1)>>, track_count |-> 1,
                              timestamp |-> 0]]]

(* a history file left by RetentionBuckets daily runs that selected T1 *)
YtFullFile ==
    [status |-> "ok",
     data |-> [d \in 0..(RetentionBuckets - 1) |->
                 [tracks |-> <<YtTrackData(T1)>>, track_count |-> 1,
                  timestamp |-> d * 24 + 7]]]

----------------------------------------------------------------------------
(* EnhancedCurator: history is {'tracks': id -> record, 'playlists': [...]} *)

EnRetentionDays == 90

(* the default history structure _load_usage_history falls back to *)
EnDefaultHistory == [tracks |-> <<>>, playlists |-> <<>>]

(* _load_usage_history: the default unless the file exists and parses *)
EnLoadUsageHistory(f) == IF f.status = "ok" THEN f.data ELSE EnDefaultHistory

(* a history file whose text no longer parses; data is what it once held *)
EnCorruptFile ==
    [status |-> "corrupt",
     data |-> [tracks |-> [x \in {T1.id} |->
                             [count |-> 1, first_used |-> 0, last_used |-> 0]],
               playlists |-> <<>>]]

(* the score of one track as the fraction num / den *)
EnScore(track, h, t) ==
    IF track.id \in DOMAIN h.tracks
    THEN LET usage_count == h.tracks[track.id].count
             days_since == (t - h.tracks[track.id].last_used) \div 24
             tenths == IF days_since >= 7 THEN 15
                       ELSE IF days_since >= 3 THEN 12
                       ELSE IF days_since = 0 THEN 1
                       ELSE IF days_since <= 2 THEN 5
                       ELSE 10
         IN  [num |-> 10 * tenths, den |-> (10 + 3 * usage_count) * 10]
    ELSE [num |-> 18, den |-> 10]

(* sorted(reference_tracks, key=score, reverse=True): stable, descending *)
EnSortedOrder(sc) ==
    LET n == Len(sc)
        greater(a, b) == a.num * b.den > b.num * a.den
        same(a, b) == a.num * b.den = b.num * a.den
        rank(i) == 1 + Cardinality({j \in 1..n :
                        greater(sc[j], sc[i]) \/ (same(sc[j], sc[i]) /\ j < i)})
    IN  [k \in 1..n |-> CHOOSE i \in 1..n : rank(i) = k]

EnMainArtist(track) == IF Len(track.artist) > 0 THEN track.artist[1] ELSE "Unknown"

(* first pass: highest scoring tracks with unique main artists *)
RECURSIVE EnPass1(_, _, _, _, _)
EnPass1(tracks, order, k, tgt, acc) ==
    IF k > Len(order) \/ Len(acc.sel) >= tgt THEN acc.sel
    ELSE LET track == tracks[order[k]]
         IN  IF EnMainArtist(track) \notin acc.used
             THEN EnPass1(tracks, order, k + 1, tgt,
                          [sel |-> Append(acc.sel, track),
                           used |-> acc.used \cup {EnMainArtist(track)}])
             ELSE EnPass1(tracks, order, k + 1, tgt, acc)

(* second pass: fill the remaining slots in score order *)
RECURSIVE EnPass2(_, _, _, _, _)
EnPass2(tracks, order, k, tgt, sel) ==
    IF k > Len(order) \/ Len(sel) >= tgt THEN sel
    ELSE LET track == tracks[order[k]]
         IN  IF track \notin Range(sel)
             THEN EnPass2(tracks, order, k + 1, tgt, Append(sel, track))
             ELSE EnPass2(tracks, order, k + 1, tgt, sel)

RECURSIVE EnUpdateTracks(_, _, _, _)
EnUpdateTracks(tr, sel, k, t) ==
    IF k > Len(sel) THEN tr
    ELSE LET id == sel[k].id
             old == IF id \in DOMAIN tr THEN tr[id]
                    ELSE [count |-> 0, first_used |-> t, last_used |-> t]
             new == [old EXCEPT !.count = old.count + 1, !.last_used = t]
             tr2 == [x \in DOMAIN tr \cup {id} |-> IF x = id THEN new ELSE tr[x]]
         IN  EnUpdateTracks(tr2, sel, k + 1, t)

RECURSIVE SelectSeq2(_, _, _)
SelectSeq2(s, k, cutoff) ==
    IF k > Len(s) THEN <<>>
    ELSE IF s[k].date > cutoff
         THEN <<s[k]>> \o SelectSeq2(s, k + 1, cutoff)
         ELSE SelectSeq2(s, k + 1, cutoff)

(* _update_usage_history: track records, playlist log, 90-day clean-up *)
EnUpdateUsageHistory(h, sel, t) ==
    LET entry == [date |-> t, track_count |-> Len(sel),
                  track_ids |-> [i \in 1..Len(sel) |-> sel[i].id]]
    IN  [tracks |-> EnUpdateTracks(h.tracks, sel, 1, t),
         playlists |-> SelectSeq2(Append(h.playlists, entry), 1,
                                  t - EnRetentionDays * 24)]

----------------------------------------------------------------------------
(* no freshness statistics have been calculated in the current run *)
NoStats == <<>>

(* _calculate_freshness_stats of SpotifyCurator; freshness_score is in     *)
(* tenths of a percent, truncated                                          *)
SpCalculateFreshnessStats(selected_tracks, h) ==
    LET idx == 1..Len(selected_tracks)
        usage_count(k) == SpUsageCount(h, selected_tracks[k].id)
        never_used == Cardinality({k \in idx : usage_count(k) = 0})
        rarely_used == Cardinality({k \in idx : usage_count(k) # 0 /\ usage_count(k) <= 2})
        frequently_used == Cardinality({k \in idx : usage_count(k) > 2})
        total_tracks == Len(selected_tracks)
    IN  [freshness_score |->
             IF total_tracks = 0 THEN 0
             ELSE (never_used * 1000 + rarely_used * 700 + frequently_used * 300)
                      \div total_tracks,
         never_used |-> never_used,
         rarely_used |-> rarely_used,
         frequently_used |-> frequently_used,
         total_tracks |-> total_tracks]

(* _calculate_freshness_stats of EnhancedVarietyCurator; freshness_score   *)
(* is in tenths of a percent, truncated                                    *)
EnCalculateFreshnessStats(selected_tracks, h) ==
    LET idx == 1..Len(selected_tracks)
        known(k) == selected_tracks[k].id \in DOMAIN h.tracks
        never_used == Cardinality({k \in idx : ~known(k)})
        rarely_used == Cardinality({k \in idx :
                           known(k) /\ h.tracks[selected_tracks[k].id].count <= 2})
        frequently_used == Cardinality({k \in idx :
                               known(k) /\ h.tracks[selected_tracks[k].id].count > 2})
        total_tracks == Len(selected_tracks)
    IN  [freshness_score |->
             IF total_tracks = 0 THEN 0
             ELSE (never_used * 1000 + rarely_used * 700) \div total_tracks,
         never_used |-> never_used,
         rarely_used |-> rarely_used,
         frequently_used |-> frequently_used,
         total_tracks |-> total_tracks]

(* any(t.get('id') == track.id for t in date_data.get('tracks', [])) *)
YtIdInBucket(track, bucket) ==
    \E k \in 1..Len(bucket.tracks) : bucket.tracks[k].id = track.id

(* the freshness block of YouTubeCurator.generate_curated_playlist and the *)
(* history part of _get_selection_stats; the scores are in tenths of a     *)
(* percent, rounded                                                        *)
YtFreshnessStats(selected_tracks, actual_track_count, h, t) ==
    LET recent_cutoff == t - 7 * 24
        recently_used ==
            Cardinality({k \in 1..actual_track_count :
                \E d \in DOMAIN h : /\ d * 24 >= recent_cutoff
                                    /\ YtIdInBucket(selected_tracks[k], h[d])})
        previously_used ==
            Cardinality({k \in 1..Len(selected_tracks) :
                \E d \in DOMAIN h : YtIdInBucket(selected_tracks[k], h[d])})
        pct(num, den) == (2000 * num + den) \div (2 * den)
    IN  [freshness_score |->
             IF actual_track_count > 0
             THEN pct(actual_track_count - recently_used, actual_track_count)
             ELSE 1000,
         recently_used |-> recently_used,
         actual_track_count |-> actual_track_count,
         previously_used_count |-> previously_used,
         freshness_ratio |->
             IF Len(selected_tracks) > 0
             THEN pct(Len(selected_tracks) - previously_used, Len(selected_tracks))
             ELSE 0]

Init ==
    /\ svc \in {"spotify", "youtube", "enhanced"}
    /\ pool \in SeqsUpTo(RefCatalogue, MaxPool)
    /\ target \in 1..MaxTarget
    /\ file \in {MissingFile}
               \cup (IF svc = "spotify" THEN {SpCorruptFile} ELSE {})
               \cup (IF svc = "enhanced" THEN {EnCorruptFile} ELSE {})
               \cup (IF svc = "youtube" THEN {YtCorruptFile, YtTodayFile} ELSE {})
               \cup (IF svc = "youtube" /\ Len(pool) < MaxPool THEN {YtFullFile} ELSE {})
    /\ now = IF file = YtFullFile THEN RetentionBuckets * 24 ELSE 0
    /\ runs = 0
    /\ pc = "idle"
    /\ usage_history = EmptyHistory
    /\ loaded = EmptyHistory
    /\ scores = <<>>
    /\ scored = FALSE
    /\ pass1 = <<>>
    /\ pass12 = <<>>
    /\ discInvoked = FALSE
    /\ needed = 0
    /\ truly_fresh = <<>>
    /\ selected = <<>>
    /\ reads = 0
    /\ writes = 0
    /\ apiWrites = 0
    /\ log = <<>>
    /\ idStore = <<>>
    /\ dateStore = <<>>
    /\ NoDiscoveryCall
    /\ NoSearchBatch
    /\ stats = NoStats
    /\ NoServiceManager

ResetRun ==
    /\ usage_history' = EmptyHistory
    /\ scores' = <<>>
    /\ scored' = FALSE
    /\ pass1' = <<>>
    /\ pass12' = <<>>
    /\ discInvoked' = FALSE
    /\ needed' = 0
    /\ truly_fresh' = <<>>
    /\ selected' = <<>>
    /\ reads' = 0
    /\ writes' = 0
    /\ apiWrites' = 0
    /\ log' = <<>>
    /\ stats' = NoStats

(* generate_curated_playlist is entered; get_playlist_tracks returns pool *)
StartRun ==
    /\ UNCHANGED storeVars
    /\ UNCHANGED searchVars
    /\ UNCHANGED mgrVars
    /\ UNCHANGED discVars
    /\ pc \in {"idle", "done", "failed"}
    /\ runs < MaxRuns
    /\ \E d \in (IF runs = 0 THEN {0} ELSE Steps) : now' = now + d
    /\ runs' = runs + 1
    /\ pc' = IF Len(pool) = 0 THEN "failed" ELSE "fetched"
    /\ ResetRun
    /\ UNCHANGED <<svc, pool, target, file, loaded>>

SpotifyLoad ==
    /\ UNCHANGED storeVars
    /\ UNCHANGED searchVars
    /\ UNCHANGED mgrVars
    /\ UNCHANGED stats
    /\ UNCHANGED discVars
    /\ svc = "spotify" /\ pc = "fetched"
    /\ usage_history' = SpLoadUsageHistory(file)
    /\ loaded' = usage_history'
    /\ reads' = reads + 1
    /\ log' = Append(log, "read")
    /\ pc' = "loaded"
    /\ UNCHANGED <<svc, pool, target, file, now, runs, scores, scored, pass1,
                   pass12, discInvoked, needed, truly_fresh, selected, writes,
                   apiWrites>>

SpotifySelect ==
    /\ UNCHANGED storeVars
    /\ UNCHANGED searchVars
    /\ UNCHANGED mgrVars
    /\ UNCHANGED stats
    /\ UNCHANGED discVars
    /\ svc = "spotify" /\ pc = "loaded"
    /\ \E jit \in [1..Len(pool) -> {-3 * Scale, 3 * Scale}] :
         LET sc == [i \in 1..Len(pool) |->
                      SpCalculateTrackScore(pool[i], usage_history, pool, now, jit[i])]
             order == SortedOrder(sc)
             p1 == SpPass1(pool, sc, order, 1, target, [sel |-> <<>>, used |-> {}])
             p2 == SpPass2(pool, sc, order, target, p1, usage_history, now)
             short == Len(p2) < target
         IN  /\ scores' = sc
             /\ scored' = TRUE
             /\ pass1' = p1
             /\ pass12' = p2
             /\ discInvoked' = short
             /\ needed' = IF short THEN target - Len(p2) ELSE 0
             /\ \E raised \in (IF short THEN BOOLEAN ELSE {FALSE}),
                   found \in (IF short THEN SeqsUpTo(DiscCatalogue, MaxDisc) ELSE {<<>>}) :
                  LET fresh_tracks == SpDiscoverTracks(found, 1, {})
                      tf == IF raised THEN <<>>
                            ELSE SpTrulyFresh(fresh_tracks, 1, pool, p2, usage_history,
                                              target - Len(p2))
                  IN  /\ ~(raised /\ found # <<>>)
                      /\ truly_fresh' = tf
                      /\ \E sh \in Shuffles(p2 \o tf) : selected' = Take(sh, target)
    /\ pc' = "selected"
    /\ UNCHANGED <<svc, pool, target, file, now, runs, usage_history, loaded,
                   reads, writes, apiWrites, log>>

(* _update_usage_history, ending in _save_usage_history *)
SpotifyRecord ==
    /\ UNCHANGED storeVars
    /\ UNCHANGED searchVars
    /\ UNCHANGED mgrVars
    /\ UNCHANGED stats
    /\ UNCHANGED discVars
    /\ svc = "spotify" /\ pc = "selected"
    /\ usage_history' = SpUpdateUsageHistory(usage_history, selected, 1, now)
    /\ \E saved \in BOOLEAN :
         /\ file' = IF saved THEN [status |-> "ok", data |-> usage_history'] ELSE file
         /\ writes' = IF saved THEN writes + 1 ELSE writes
         /\ log' = IF saved THEN Append(log, "write") ELSE log
    /\ pc' = "recorded"
    /\ UNCHANGED <<svc, pool, target, now, runs, loaded, scores, scored, pass1,
                   pass12, discInvoked, needed, truly_fresh, selected, reads,
                   apiWrites>>

(* find_playlist_by_name / create_playlist / update_playlist_tracks *)
SpotifyWritePlaylist ==
    /\ UNCHANGED storeVars
    /\ UNCHANGED searchVars
    /\ UNCHANGED mgrVars
    /\ UNCHANGED discVars
    /\ svc = "spotify" /\ pc = "recorded"
    /\ \E ok \in BOOLEAN :
         /\ pc' = IF ok THEN "done" ELSE "failed"
         /\ apiWrites' = apiWrites + 1
         /\ log' = Append(log, "playlist")
         /\ stats' = IF ok THEN SpCalculateFreshnessStats(selected, usage_history)
                     ELSE stats
    /\ UNCHANGED <<svc, pool, target, file, now, runs, usage_history, loaded,
                   scores, scored, pass1, pass12, discInvoked, needed,
                   truly_fresh, selected, reads, writes>>

YouTubeLoad ==
    /\ UNCHANGED storeVars
    /\ UNCHANGED searchVars
    /\ UNCHANGED mgrVars
    /\ UNCHANGED stats
    /\ UNCHANGED discVars
    /\ svc = "youtube" /\ pc = "fetched"
    /\ usage_history' = YtLoadUsageHistory(file)
    /\ loaded' = usage_history'
    /\ reads' = reads + 1
    /\ log' = Append(log, "read")
    /\ pc' = "loaded"
    /\ UNCHANGED <<svc, pool, target, file, now, runs, scores, scored, pass1,
                   pass12, discInvoked, needed, truly_fresh, selected, writes,
                   apiWrites>>

YouTubeSelect ==
    /\ UNCHANGED storeVars
    /\ UNCHANGED searchVars
    /\ UNCHANGED mgrVars
    /\ UNCHANGED stats
    /\ UNCHANGED discVars
    /\ svc = "youtube" /\ pc = "loaded"
    /\ IF Len(pool) <= target
       THEN /\ selected' = pool
            /\ UNCHANGED <<scores, scored, pass1, pass12, discInvoked, needed,
                           truly_fresh, reads, log>>
       ELSE \E jit \in [1..Len(pool) -> {-5 * Scale, 5 * Scale}] :
              LET sc == [i \in 1..Len(pool) |->
                           YtFinalScore(YtPenalties(pool[i], usage_history, now), jit[i])]
                  order == SortedOrder(sc)
                  p1 == YtPass1(pool, order, 1, target, <<>>)
                  remaining_tracks == IF Len(p1) < target
                                      THEN YtRemaining(pool, order, 1, p1) ELSE <<>>
              IN  /\ scores' = sc
                  /\ scored' = TRUE
                  /\ pass1' = p1
                  /\ \E rem \in Shuffles(remaining_tracks) :
                       LET p2 == p1 \o Take(rem, target - Len(p1))
                           short == Len(p2) < target
                       IN  /\ pass12' = p2
                           /\ discInvoked' = short
                           /\ needed' = IF short THEN target - Len(p2) ELSE 0
                           /\ IF ~short
                              THEN /\ \E final \in YtFinalOrders(p2) :
                                        selected' = Take(final, target)
                                   /\ UNCHANGED <<truly_fresh, reads, log>>
                              ELSE \E raised \in BOOLEAN, profileOk \in BOOLEAN,
                                      found \in SeqsUpTo(DiscCatalogue, MaxDisc) :
                                     LET nd == target - Len(p2)
                                         fresh_tracks == YtDiscoverTracks(found,
                                                             YtAnalyzeTasteProfile(pool, profileOk, {}),
                                                             file, nd * 2)
                                         existing_ids == {r.id : r \in Range(p2)} \cup {r.id : r \in Range(pool)}
                                         tf == IF raised THEN <<>>
                                               ELSE YtTrulyFresh(fresh_tracks, 1, existing_ids, nd)
                                     IN  /\ raised => (found = <<>> /\ profileOk)
                                         /\ truly_fresh' = tf
                                         /\ reads' = IF raised THEN reads ELSE reads + 1
                                         /\ log' = IF raised THEN log ELSE Append(log, "read")
                                         /\ selected' = Take(p2 \o tf, target)
    /\ pc' = "selected"
    /\ UNCHANGED <<svc, pool, target, file, now, runs, usage_history, loaded,
                   writes, apiWrites>>

(* find_playlist_by_name / create_playlist / update_playlist_tracks *)
YouTubeWritePlaylist ==
    /\ UNCHANGED storeVars
    /\ UNCHANGED searchVars
    /\ UNCHANGED mgrVars
    /\ UNCHANGED discVars
    /\ svc = "youtube" /\ pc = "selected"
    /\ \E ok \in BOOLEAN :
         /\ pc' = IF ok THEN "written" ELSE "failed"
         /\ apiWrites' = apiWrites + 1
         /\ log' = Append(log, "playlist")
         /\ \E actual_track_count \in (IF ok THEN 0..Len(selected) ELSE {0}) :
              stats' = IF ok
                       THEN YtFreshnessStats(selected, actual_track_count,
                                             usage_history, now)
                       ELSE stats
    /\ UNCHANGED <<svc, pool, target, file, now, runs, usage_history, loaded,
                   scores, scored, pass1, pass12, discInvoked, needed,
                   truly_fresh, selected, reads, writes>>

(* _update_usage_history: bucket, pruning and json.dump in one try block *)
YouTubeRecord ==
    /\ UNCHANGED storeVars
    /\ UNCHANGED searchVars
    /\ UNCHANGED mgrVars
    /\ UNCHANGED stats
    /\ UNCHANGED discVars
    /\ svc = "youtube" /\ pc = "written"
    /\ usage_history' = YtUpdateUsageHistory(usage_history, selected, now)
    /\ \E saved \in BOOLEAN :
         /\ file' = IF saved THEN [status |-> "ok", data |-> usage_history'] ELSE file
         /\ writes' = IF saved THEN writes + 1 ELSE writes
         /\ log' = IF saved THEN Append(log, "write") ELSE log
    /\ pc' = "done"
    /\ UNCHANGED <<svc, pool, target, now, runs, loaded, scores, scored, pass1,
                   pass12, discInvoked, needed, truly_fresh, selected, reads,
                   apiWrites>>

EnhancedLoad ==
    /\ UNCHANGED storeVars
    /\ UNCHANGED searchVars
    /\ UNCHANGED mgrVars
    /\ UNCHANGED stats
    /\ UNCHANGED discVars
    /\ svc = "enhanced" /\ pc = "fetched"
    /\ usage_history' = EnLoadUsageHistory(file)
    /\ loaded' = usage_history'
    /\ reads' = reads + 1
    /\ log' = Append(log, "read")
    /\ pc' = "loaded"
    /\ UNCHANGED <<svc, pool, target, file, now, runs, scores, scored, pass1,
                   pass12, discInvoked, needed, truly_fresh, selected, writes,
                   apiWrites>>

EnhancedSelect ==
    /\ UNCHANGED storeVars
    /\ UNCHANGED searchVars
    /\ UNCHANGED mgrVars
    /\ UNCHANGED stats
    /\ UNCHANGED discVars
    /\ svc = "enhanced" /\ pc = "loaded"
    /\ LET target_size == Min(target, Len(pool))
           sc == [i \in 1..Len(pool) |-> EnScore(pool[i], usage_history, now)]
           order == EnSortedOrder(sc)
           p1 == EnPass1(pool, order, 1, target_size, [sel |-> <<>>, used |-> {}])
           p2 == EnPass2(pool, order, 1, target_size, p1)
       IN  /\ scores' = sc
           /\ scored' = TRUE
           /\ pass1' = p1
           /\ pass12' = p2
           /\ \E sh \in Shuffles(p2) : selected' = Take(sh, target_size)
    /\ pc' = "selected"
    /\ UNCHANGED <<svc, pool, target, file, now, runs, usage_history, loaded,
                   discInvoked, needed, truly_fresh, reads, writes, apiWrites, log>>

EnhancedRecord ==
    /\ UNCHANGED storeVars
    /\ UNCHANGED searchVars
    /\ UNCHANGED mgrVars
    /\ UNCHANGED stats
    /\ UNCHANGED discVars
    /\ svc = "enhanced" /\ pc = "selected"
    /\ usage_history' = EnUpdateUsageHistory(usage_history, selected, now)
    /\ \E saved \in BOOLEAN :
         /\ file' = IF saved THEN [status |-> "ok", data |-> usage_history'] ELSE file
         /\ writes' = IF saved THEN writes + 1 ELSE writes
         /\ log' = IF saved THEN Append(log, "write") ELSE log
    /\ pc' = "recorded"
    /\ UNCHANGED <<svc, pool, target, now, runs, loaded, scores, scored, pass1,
                   pass12, discInvoked, needed, truly_fresh, selected, reads,
                   apiWrites>>

(* find_playlist_by_name / create_playlist / update_playlist *)
EnhancedWritePlaylist ==
    /\ UNCHANGED storeVars
    /\ UNCHANGED searchVars
    /\ UNCHANGED mgrVars
    /\ UNCHANGED discVars
    /\ svc = "enhanced" /\ pc = "recorded"
    /\ \E ok \in BOOLEAN :
         /\ pc' = IF ok THEN "done" ELSE "failed"
         /\ apiWrites' = apiWrites + 1
         /\ log' = Append(log, "playlist")
         /\ stats' = IF ok THEN EnCalculateFreshnessStats(selected, usage_history)
                     ELSE stats
    /\ UNCHANGED <<svc, pool, target, file, now, runs, usage_history, loaded,
                   scores, scored, pass1, pass12, discInvoked, needed,
                   truly_fresh, selected, reads, writes>>

Next ==
    \/ StartRun
    \/ SpotifyLoad
    \/ SpotifySelect
    \/ SpotifyRecord
    \/ SpotifyWritePlaylist
    \/ YouTubeLoad
    \/ YouTubeSelect
    \/ YouTubeWritePlaylist
    \/ YouTubeRecord
    \/ EnhancedLoad
    \/ EnhancedSelect
    \/ EnhancedRecord
    \/ EnhancedWritePlaylist

Spec == Init /\ [][Next]_vars

----------------------------------------------------------------------------
(* The two store variants under one and the same sequence of record        *)
(* operations.                                                             *)

InitStores ==
    /\ svc = "stores"
    /\ pool = <<>>
    /\ target = 0
    /\ file = MissingFile
    /\ now = 0
    /\ runs = 0
    /\ pc = "idle"
    /\ usage_history = EmptyHistory
    /\ loaded = EmptyHistory
    /\ scores = <<>>
    /\ scored = FALSE
    /\ pass1 = <<>>
    /\ pass12 = <<>>
    /\ discInvoked = FALSE
    /\ needed = 0
    /\ truly_fresh = <<>>
    /\ selected = <<>>
    /\ reads = 0
    /\ writes = 0
    /\ apiWrites = 0
    /\ log = <<>>
    /\ idStore = <<>>
    /\ dateStore = <<>>
    /\ NoDiscoveryCall
    /\ NoSearchBatch
    /\ stats = NoStats
    /\ NoServiceManager

(* non-empty selections without a repeated track, over tracks with distinct names *)
StoreSelections ==
    {sel \in SeqsUpTo({T1, T2}, MaxTarget) :
        /\ Len(sel) > 0
        /\ \A i, j \in 1..Len(sel) : i # j => sel[i].id # sel[j].id}

(* one record operation applied to both stores at the same time *)
RecordBoth ==
    /\ runs < MaxRuns
    /\ \E d \in Steps, sel \in StoreSelections :
         /\ now' = now + d
         /\ selected' = sel
         /\ idStore' = SpUpdateUsageHistory(idStore, sel, 1, now')
         /\ dateStore' = YtUpdateUsageHistory(dateStore, sel, now')
    /\ runs' = runs + 1
    /\ UNCHANGED <<svc, pool, target, file, pc, usage_history, loaded, scores,
                   scored, pass1, pass12, discInvoked, needed, truly_fresh,
                   reads, writes, apiWrites, log>>
    /\ UNCHANGED discVars
    /\ UNCHANGED searchVars
    /\ UNCHANGED mgrVars
    /\ UNCHANGED stats

NextStores == RecordBoth

SpecStores == InitStores /\ [][NextStores]_vars

----------------------------------------------------------------------------
(* The selectors alone: _smart_select_with_history applied to a loaded     *)
(* history and a reference playlist without repeated entries.              *)

(* a Spotify history file in which T1 was used once, at hour 0 *)
SpUsedFile ==
    [status |-> "ok",
     data |-> [x \in {T1.id} |-> [count |-> 1, first_used |-> 0, last_used |-> 0]]]

(* a Spotify history file in which T1 was used six times, last at hour 0 *)
SpHeavyFile ==
    [status |-> "ok",
     data |-> [x \in {T1.id} |-> [count |-> 6, first_used |-> 0, last_used |-> 0]]]

(* hours at which the selector runs: inside the block window, later the    *)
(* same day, more than a week later                                        *)
SelectTimes == {0, 12, 200}

InitSelect ==
    /\ svc \in {"spotify", "youtube"}
    /\ pool \in {p \in SeqsUpTo(SelCatalogue, MaxPool) :
                    /\ Len(p) > 0
                    /\ \A i, j \in 1..Len(p) : i # j => p[i] # p[j]}
    /\ target \in 1..MaxTarget
    /\ file \in (IF svc = "spotify" THEN {MissingFile, SpUsedFile, SpHeavyFile}
                 ELSE {MissingFile, YtTodayFile})
    /\ now \in SelectTimes
    /\ runs = 1
    /\ pc = "loaded"
    /\ usage_history = IF svc = "spotify" THEN SpLoadUsageHistory(file)
                       ELSE YtLoadUsageHistory(file)
    /\ loaded = usage_history
    /\ scores = <<>>
    /\ scored = FALSE
    /\ pass1 = <<>>
    /\ pass12 = <<>>
    /\ discInvoked = FALSE
    /\ needed = 0
    /\ truly_fresh = <<>>
    /\ selected = <<>>
    /\ reads = 1
    /\ writes = 0
    /\ apiWrites = 0
    /\ log = <<"read">>
    /\ idStore = <<>>
    /\ dateStore = <<>>
    /\ NoDiscoveryCall
    /\ NoSearchBatch
    /\ stats = NoStats
    /\ NoServiceManager

NextSelect ==
    \/ SpotifySelect
    \/ YouTubeSelect

SpecSelect == InitSelect /\ [][NextSelect]_vars

----------------------------------------------------------------------------
(* The discovery engines called on their own.  target is the requested      *)
(* count, pool the reference playlist the taste profile is built from.      *)

(* what the searches can return: a reference track, a track with the name   *)
(* of a reference track under another ID, a saved track, a slow track, and  *)
(* a second upload of the saved track with a trailing blank in its name     *)
DiscoverFound == {T1, T3, D1, D2, D3, D4}

(* reference playlists of the stand-alone discovery calls *)
DiscoverRefCatalogue == RefCatalogue \cup {T6}

(* get_artist_info results the artist lookups can collect *)
ArtistInfos == {[name |-> "A", genres |-> {"rock"}]}

(* analyze_taste_profile raises: get_playlist_tracks failed or returned no  *)
(* track                                                                    *)
SpAnalyzeRaises(reference_tracks, reachable) ==
    ~reachable \/ reference_tracks = <<>>

(* the taste profile analyze_taste_profile returns *)
SpAnalyzeTasteProfile(reference_tracks, artist_infos) ==
    [genres |-> UNION {i.genres : i \in artist_infos},
     artists |-> UNION {Range(SplitArtists(t.artist)) : t \in Range(reference_tracks)},
     artist_infos |-> artist_infos,
     known_track_ids |-> KnownTrackIds(reference_tracks),
     reference_tracks |-> reference_tracks,
     artists_analyzed |-> Cardinality(artist_infos)]

(* _filter_unknown_tracks *)
SpFilterUnknownTracks(tracks, known_track_ids) ==
    LET Unknown(track) == track.id \notin known_track_ids
    IN  SelectSeq(tracks, Unknown)

(* _select_best_tracks: every list random.sample can draw from the top tier *)
SpSelectBestTracks(tracks, target_count) ==
    IF Len(tracks) <= target_count THEN {tracks}
    ELSE LET order == SortedOrder([i \in 1..Len(tracks) |-> tracks[i].popularity])
             sorted_tracks == [k \in 1..Len(tracks) |-> tracks[order[k]]]
             top_tier == Take(sorted_tracks, target_count * 2)
             n == Min(target_count, Len(top_tier))
         IN  {[i \in 1..n |-> top_tier[q[i]]] :
                 q \in {f \in [1..n -> 1..Len(top_tier)] :
                           \A i, j \in 1..n : i # j => f[i] # f[j]}}

InitDiscover ==
    /\ svc \in {"spotify", "youtube"}
    /\ pool \in SeqsUpTo(DiscoverRefCatalogue, MaxPool)
    /\ target \in 1..MaxTarget
    /\ file \in (IF svc = "youtube" THEN {MissingFile, YtTodayFile} ELSE {MissingFile})
    /\ now = 0
    /\ runs = 0
    /\ pc = "idle"
    /\ usage_history = EmptyHistory
    /\ loaded = EmptyHistory
    /\ scores = <<>>
    /\ scored = FALSE
    /\ pass1 = <<>>
    /\ pass12 = <<>>
    /\ discInvoked = FALSE
    /\ needed = 0
    /\ truly_fresh = <<>>
    /\ selected = <<>>
    /\ reads = 0
    /\ writes = 0
    /\ apiWrites = 0
    /\ log = <<>>
    /\ idStore = <<>>
    /\ dateStore = <<>>
    /\ NoDiscoveryCall
    /\ NoSearchBatch
    /\ stats = NoStats
    /\ NoServiceManager

(* SpotifyDiscoveryEngine.analyze_taste_profile(reference) *)
SpotifyAnalyzeTasteProfile ==
    /\ svc = "spotify" /\ pc = "idle"
    /\ \E reachable \in BOOLEAN, artist_infos \in SUBSET ArtistInfos :
         /\ discOp' = "analyze_taste_profile"
         /\ IF SpAnalyzeRaises(pool, reachable)
            THEN /\ pc' = "failed"
                 /\ taste_profile' = <<>>
            ELSE /\ pc' = "returned"
                 /\ taste_profile' = SpAnalyzeTasteProfile(pool, artist_infos)
    /\ UNCHANGED <<svc, pool, target, file, now, runs, usage_history, loaded,
                   scores, scored, pass1, pass12, discInvoked, needed,
                   truly_fresh, selected, reads, writes, apiWrites, log>>
    /\ UNCHANGED <<discovered_tracks, unique_tracks, final_tracks>>
    /\ UNCHANGED storeVars
    /\ UNCHANGED searchVars
    /\ UNCHANGED mgrVars
    /\ UNCHANGED stats

(* YouTubeDiscoveryEngine.analyze_taste_profile(reference) *)
YouTubeAnalyzeTasteProfile ==
    /\ svc = "youtube" /\ pc = "idle"
    /\ \E reachable \in BOOLEAN, derived \in SUBSET {"dance"} :
         taste_profile' = YtAnalyzeTasteProfile(pool, reachable, derived)
    /\ discOp' = "analyze_taste_profile"
    /\ pc' = "returned"
    /\ UNCHANGED <<svc, pool, target, file, now, runs, usage_history, loaded,
                   scores, scored, pass1, pass12, discInvoked, needed,
                   truly_fresh, selected, reads, writes, apiWrites, log>>
    /\ UNCHANGED <<discovered_tracks, unique_tracks, final_tracks>>
    /\ UNCHANGED storeVars
    /\ UNCHANGED searchVars
    /\ UNCHANGED mgrVars
    /\ UNCHANGED stats

(* SpotifyDiscoveryEngine.discover_new_playlist(reference, target) *)
SpotifyDiscoverNewPlaylist ==
    /\ svc = "spotify" /\ pc = "idle"
    /\ discOp' = "discover_new_playlist"
    /\ \E reachable \in BOOLEAN, artist_infos \in SUBSET ArtistInfos,
          found \in SeqsUpTo(DiscoverFound, MaxDisc), ok \in BOOLEAN :
         IF SpAnalyzeRaises(pool, reachable)
         THEN /\ pc' = "failed"
              /\ UNCHANGED <<taste_profile, discovered_tracks, unique_tracks,
                             final_tracks, apiWrites, log>>
         ELSE LET profile == SpAnalyzeTasteProfile(pool, artist_infos)
                  new_tracks == SpDiscoverTracks(found, 1, {})
                  filtered_tracks == SpFilterUnknownTracks(new_tracks, profile.known_track_ids)
              IN  /\ taste_profile' = profile
                  /\ discovered_tracks' = found
                  /\ unique_tracks' = new_tracks
                  /\ IF filtered_tracks = <<>>
                     THEN /\ pc' = "raised"
                          /\ final_tracks' = <<>>
                          /\ UNCHANGED <<apiWrites, log>>
                     ELSE /\ final_tracks' \in SpSelectBestTracks(filtered_tracks, target)
                          /\ apiWrites' = apiWrites + 1
                          /\ log' = Append(log, "playlist")
                          /\ pc' = IF ok THEN "returned" ELSE "failed"
    /\ UNCHANGED <<svc, pool, target, file, now, runs, usage_history, loaded,
                   scores, scored, pass1, pass12, discInvoked, needed,
                   truly_fresh, selected, reads, writes>>
    /\ UNCHANGED storeVars
    /\ UNCHANGED searchVars
    /\ UNCHANGED mgrVars
    /\ UNCHANGED stats

(* SpotifyDiscoveryEngine._discover_tracks(taste_profile, target), handed   *)
(* the profile of the reference playlist                                    *)
SpotifyDiscoverTracks ==
    /\ svc = "spotify" /\ pc = "idle"
    /\ pool # <<>>
    /\ \E artist_infos \in SUBSET ArtistInfos, found \in SeqsUpTo(DiscoverFound, MaxDisc) :
         /\ taste_profile' = SpAnalyzeTasteProfile(pool, artist_infos)
         /\ discovered_tracks' = found
         /\ unique_tracks' = SpDiscoverTracks(found, 1, {})
         /\ final_tracks' = unique_tracks'
    /\ discOp' = "_discover_tracks"
    /\ pc' = "returned"
    /\ UNCHANGED <<svc, pool, target, file, now, runs, usage_history, loaded,
                   scores, scored, pass1, pass12, discInvoked, needed,
                   truly_fresh, selected, reads, writes, apiWrites, log>>
    /\ UNCHANGED storeVars
    /\ UNCHANGED searchVars
    /\ UNCHANGED mgrVars
    /\ UNCHANGED stats

(* YouTubeDiscoveryEngine.discover_tracks(reference, target) *)
YouTubeDiscoverTracks ==
    /\ svc = "youtube" /\ pc = "idle"
    /\ \E reachable \in BOOLEAN, derived \in SUBSET {"dance"},
          found \in SeqsUpTo(DiscoverFound, MaxDisc) :
         LET profile == YtAnalyzeTasteProfile(pool, reachable, derived)
         IN  /\ taste_profile' = profile
             /\ discovered_tracks' = found
             /\ unique_tracks' = YtDeduplicate(found, 1, {}, {})
             /\ final_tracks' = YtDiscoverTracks(found, profile, file, target)
    /\ discOp' = "discover_tracks"
    /\ pc' = "returned"
    /\ reads' = reads + 1
    /\ log' = Append(log, "read")
    /\ UNCHANGED <<svc, pool, target, file, now, runs, usage_history, loaded,
                   scores, scored, pass1, pass12, discInvoked, needed,
                   truly_fresh, selected, writes, apiWrites>>
    /\ UNCHANGED storeVars
    /\ UNCHANGED searchVars
    /\ UNCHANGED mgrVars
    /\ UNCHANGED stats

(* YouTubeDiscoveryEngine.discover_new_playlist(reference, target):        *)
(* discover_tracks, then _create_discovery_playlist                        *)
YouTubeDiscoverNewPlaylist ==
    /\ svc = "youtube" /\ pc = "idle"
    /\ \E reachable \in BOOLEAN, derived \in SUBSET {"dance"},
          found \in SeqsUpTo(DiscoverFound, MaxDisc), ok \in BOOLEAN :
         LET profile == YtAnalyzeTasteProfile(pool, reachable, derived)
         IN  /\ taste_profile' = profile
             /\ discovered_tracks' = found
             /\ unique_tracks' = YtDeduplicate(found, 1, {}, {})
             /\ final_tracks' = YtDiscoverTracks(found, profile, file, target)
             /\ pc' = IF ok THEN "returned" ELSE "failed"
    /\ discOp' = "discover_new_playlist"
    /\ reads' = reads + 1
    /\ apiWrites' = apiWrites + 1
    /\ log' = log \o <<"read", "playlist">>
    /\ UNCHANGED <<svc, pool, target, file, now, runs, usage_history, loaded,
                   scores, scored, pass1, pass12, discInvoked, needed,
                   truly_fresh, selected, writes>>
    /\ UNCHANGED storeVars
    /\ UNCHANGED searchVars
    /\ UNCHANGED mgrVars
    /\ UNCHANGED stats

NextDiscover ==
    \/ SpotifyAnalyzeTasteProfile
    \/ YouTubeAnalyzeTasteProfile
    \/ SpotifyDiscoverNewPlaylist
    \/ SpotifyDiscoverTracks
    \/ YouTubeDiscoverTracks
    \/ YouTubeDiscoverNewPlaylist

SpecDiscover == InitDiscover /\ [][NextDiscover]_vars

----------------------------------------------------------------------------
(* One search batch of a discovery engine.  A batch walks over the artists  *)
(* or genres of the taste profile and issues a fixed list of queries for    *)
(* each; responses[<<g, q>>] is what query q of entry g answers.            *)

MaxGroups == 2      \* artists or genres one batch walks over

YtQueries == 4      \* queries per artist in _search_by_artists
SpQueries == 3      \* queries per genre in _search_hidden_gems

(* a search call raises or returns one track *)
SearchAnswers == {"raise", <<D1>>, <<D2>>}

(* the first query of entry g that raises, nq + 1 when none does *)
FirstRaise(resp, g, nq) ==
    IF \E q \in 1..nq : resp[<<g, q>>] = "raise"
    THEN CHOOSE q \in 1..nq :
             /\ resp[<<g, q>>] = "raise"
             /\ \A r \in 1..(q - 1) : resp[<<g, r>>] # "raise"
    ELSE nq + 1

(* the answers of queries 1..upto of entry g, concatenated *)
RECURSIVE ExtendResults(_, _, _)
ExtendResults(resp, g, upto) ==
    IF upto = 0 THEN <<>>
    ELSE ExtendResults(resp, g, upto - 1) \o resp[<<g, upto>>]

(* for track in search_results: append the new ones until target_count *)
RECURSIVE YtAppendNew(_, _, _, _, _)
YtAppendNew(acc, search_results, k, existing, target_count) ==
    IF k > Len(search_results) THEN acc
    ELSE IF search_results[k].id \notin existing /\ search_results[k] \notin Range(acc)
         THEN LET acc2 == Append(acc, search_results[k])
              IN  IF Len(acc2) >= target_count THEN acc2
                  ELSE YtAppendNew(acc2, search_results, k + 1, existing, target_count)
         ELSE YtAppendNew(acc, search_results, k + 1, existing, target_count)

(* _search_by_artists from artist g on: the tracks and the calls issued *)
RECURSIVE YtSearchByArtists(_, _, _, _, _, _, _)
YtSearchByArtists(resp, n, g, acc, calls, existing, target_count) ==
    IF g > n THEN [tracks |-> acc, issued |-> calls]
    ELSE LET fr == FirstRaise(resp, g, YtQueries)
             calls2 == calls \cup {<<g, q>> : q \in 1..Min(fr, YtQueries)}
         IN  IF fr <= YtQueries
             THEN YtSearchByArtists(resp, n, g + 1, acc, calls2, existing, target_count)
             ELSE LET acc2 == YtAppendNew(acc, ExtendResults(resp, g, YtQueries), 1,
                                          existing, target_count)
                  IN  IF Len(acc2) >= target_count
                      THEN [tracks |-> acc2, issued |-> calls2]
                      ELSE YtSearchByArtists(resp, n, g + 1, acc2, calls2, existing,
                                             target_count)

(* _search_hidden_gems from genre g on: the tracks and the calls issued *)
RECURSIVE SpSearchHiddenGems(_, _, _, _, _)
SpSearchHiddenGems(resp, n, g, acc, calls) ==
    IF g > n THEN [tracks |-> acc, issued |-> calls]
    ELSE LET fr == FirstRaise(resp, g, SpQueries)
         IN  SpSearchHiddenGems(resp, n, g + 1,
                                acc \o ExtendResults(resp, g, fr - 1),
                                calls \cup {<<g, q>> : q \in 1..Min(fr, SpQueries)})

InitSearch ==
    /\ svc \in {"spotify", "youtube"}
    /\ pool = <<>>
    /\ target \in 1..MaxTarget
    /\ file = MissingFile
    /\ now = 0
    /\ runs = 0
    /\ pc = "idle"
    /\ usage_history = EmptyHistory
    /\ loaded = EmptyHistory
    /\ scores = <<>>
    /\ scored = FALSE
    /\ pass1 = <<>>
    /\ pass12 = <<>>
    /\ discInvoked = FALSE
    /\ needed = 0
    /\ truly_fresh = <<>>
    /\ selected = <<>>
    /\ reads = 0
    /\ writes = 0
    /\ apiWrites = 0
    /\ log = <<>>
    /\ idStore = <<>>
    /\ dateStore = <<>>
    /\ NoDiscoveryCall
    /\ NoSearchBatch
    /\ stats = NoStats
    /\ NoServiceManager

(* YouTubeDiscoveryEngine._search_by_artists(artists, target, existing_ids) *)
YouTubeSearchByArtists ==
    /\ svc = "youtube" /\ pc = "idle"
    /\ \E n \in 1..MaxGroups, existing \in {{}, {D1.id}} :
         \E resp \in [(1..n) \X (1..YtQueries) -> SearchAnswers] :
            LET out == YtSearchByArtists(resp, n, 1, <<>>, {}, existing, target)
            IN  /\ responses' = resp
                /\ existing_video_ids' = existing
                /\ issued' = out.issued
                /\ batch_tracks' = out.tracks
    /\ discOp' = "_search_by_artists"
    /\ pc' = "returned"
    /\ UNCHANGED <<svc, pool, target, file, now, runs, usage_history, loaded,
                   scores, scored, pass1, pass12, discInvoked, needed,
                   truly_fresh, selected, reads, writes, apiWrites, log>>
    /\ UNCHANGED <<discovered_tracks, unique_tracks, final_tracks, taste_profile>>
    /\ UNCHANGED storeVars
    /\ UNCHANGED mgrVars
    /\ UNCHANGED stats

(* SpotifyDiscoveryEngine._search_hidden_gems(taste_profile, target) *)
SpotifySearchHiddenGems ==
    /\ svc = "spotify" /\ pc = "idle"
    /\ \E n \in 1..MaxGroups :
         \E resp \in [(1..n) \X (1..SpQueries) -> SearchAnswers] :
            LET out == SpSearchHiddenGems(resp, n, 1, <<>>, {})
            IN  /\ responses' = resp
                /\ issued' = out.issued
                /\ batch_tracks' = out.tracks
    /\ discOp' = "_search_hidden_gems"
    /\ pc' = "returned"
    /\ UNCHANGED <<svc, pool, target, file, now, runs, usage_history, loaded,
                   scores, scored, pass1, pass12, discInvoked, needed,
                   truly_fresh, selected, reads, writes, apiWrites, log>>
    /\ UNCHANGED <<discovered_tracks, unique_tracks, final_tracks, taste_profile,
                   existing_video_ids>>
    /\ UNCHANGED storeVars
    /\ UNCHANGED mgrVars
    /\ UNCHANGED stats

NextSearch ==
    \/ YouTubeSearchByArtists
    \/ SpotifySearchHiddenGems

SpecSearch == InitSearch /\ [][NextSearch]_vars

----------------------------------------------------------------------------
(* ServiceManager *)

MaxInits == 3       \* initialize_service calls per behaviour

(* the service types the manager is asked about *)
MgrTypes == {"spotify", "youtube_music"}

(* keys of the <type>.env file that validate_config requires *)
ClientIdKey(t)     == IF t = "spotify" THEN "SPOTIFY_CLIENT_ID" ELSE "YOUTUBE_CLIENT_ID"
ClientSecretKey(t) == IF t = "spotify" THEN "SPOTIFY_CLIENT_SECRET" ELSE "YOUTUBE_CLIENT_SECRET"
RedirectKey(t)     == IF t = "spotify" THEN "SPOTIFY_REDIRECT_URI" ELSE "YOUTUBE_REDIRECT_URI"
PlaylistKey        == "REFERENCE_PLAYLIST_ID"

RequiredKeys(t) == {ClientIdKey(t), ClientSecretKey(t), RedirectKey(t), PlaylistKey}

(* the template values validate_config refuses *)
Placeholders == {"your_client_id_here", "your_client_secret_here", "your_playlist_id_here"}

(* _load_service_config when the file does not exist *)
NoConfigFile == <<>>

(* the file create_config_template writes *)
TemplateConfig(t) ==
    [k \in RequiredKeys(t) |->
        CASE k = ClientIdKey(t) -> "your_client_id_here"
          [] k = ClientSecretKey(t) -> "your_client_secret_here"
          [] k = RedirectKey(t) -> "http://127.0.0.1:8080/callback"
          [] OTHER -> "your_playlist_id_here"]

(* a file with credentials filled in *)
RealConfig(t) ==
    [k \in RequiredKeys(t) |->
        CASE k = ClientIdKey(t) -> "abc123"
          [] k = ClientSecretKey(t) -> "s3cr3t"
          [] k = RedirectKey(t) -> "http://127.0.0.1:8080/callback"
          [] OTHER -> "37i9dQZF1DX"]

(* credentials filled in, the redirect URI without its scheme *)
BadRedirectConfig(t) ==
    [RealConfig(t) EXCEPT ![RedirectKey(t)] = "127.0.0.1:8080/callback"]

ConfigsOf(t) ==
    {NoConfigFile, TemplateConfig(t), RealConfig(t), BadRedirectConfig(t)}

(* self.config.get(key), '' when the key is absent *)
ConfigGet(config, key) == IF key \in DOMAIN config THEN config[key] ELSE ""

(* redirect_uri.startswith('http://') or redirect_uri.startswith('https://') *)
StartsWithHttp(uri) == uri \in {"http://127.0.0.1:8080/callback"}

(* validate_config: the list of errors *)
ValidateConfig(t, config) ==
    {[error |-> "missing", key |-> k] :
        k \in {r \in RequiredKeys(t) : ConfigGet(config, r) = ""}}
    \cup {[error |-> "placeholder", key |-> k] :
        k \in {r \in RequiredKeys(t) : ConfigGet(config, r) \in Placeholders}}
    \cup (IF ConfigGet(config, RedirectKey(t)) # ""
             /\ ~StartsWithHttp(ConfigGet(config, RedirectKey(t)))
          THEN {[error |-> "redirect", key |-> RedirectKey(t)]} ELSE {})

(* initialize_service accepts every call that claims a valid configuration *)
IsValid_Always(errors) == TRUE

(* is_valid: len(errors) == 0 *)
IsValid(errors) == errors = {}

(* initialize_service keeps every service whose authenticate() returned *)
AuthSuccess_Returned(outcome) == outcome # "raise"

(* auth_success: authenticate() returned a true value *)
AuthSuccess(outcome) == outcome = "true"

(* initialize_service without the look-up of the active services *)
AlreadyInitialized_Never(active, t) == FALSE

(* service_type in self._active_services *)
AlreadyInitialized(active, t) == t \in DOMAIN active

(* what authenticate() can do *)
AuthOutcomes == {"true", "false", "raise"}

InitManager ==
    /\ svc = "manager"
    /\ pool = <<>>
    /\ target = 0
    /\ file = MissingFile
    /\ now = 0
    /\ runs = 0
    /\ pc = "idle"
    /\ usage_history = EmptyHistory
    /\ loaded = EmptyHistory
    /\ scores = <<>>
    /\ scored = FALSE
    /\ pass1 = <<>>
    /\ pass12 = <<>>
    /\ discInvoked = FALSE
    /\ needed = 0
    /\ truly_fresh = <<>>
    /\ selected = <<>>
    /\ reads = 0
    /\ writes = 0
    /\ apiWrites = 0
    /\ log = <<>>
    /\ stats = NoStats
    /\ idStore = <<>>
    /\ dateStore = <<>>
    /\ NoDiscoveryCall
    /\ NoSearchBatch
    /\ service_registry = {}
    /\ discovery_registry = {}
    /\ curator_registry = {}
    /\ active_services = <<>>
    /\ config_files \in [MgrTypes -> {NoConfigFile}]
    /\ initCalls = 0
    /\ validateCalls = [t \in MgrTypes |-> 0]
    /\ authCalls = [t \in MgrTypes |-> 0]
    /\ last_valid = [t \in MgrTypes |-> "none"]
    /\ last_auth = [t \in MgrTypes |-> "none"]
    /\ next_instance = 1
    /\ mgrOp = [op |-> "none"]

pipelineVars == <<svc, pool, target, file, now, runs, pc, usage_history, loaded,
                  scores, scored, pass1, pass12, discInvoked, needed, truly_fresh,
                  selected, reads, writes, apiWrites, log, stats>>

(* register_service(service_type, service_class, discovery_class, curator_class) *)
RegisterService ==
    /\ svc = "manager"
    /\ \E t \in MgrTypes, discovery_class \in BOOLEAN, curator_class \in BOOLEAN :
         /\ service_registry' = service_registry \cup {t}
         /\ discovery_registry' = IF discovery_class THEN discovery_registry \cup {t}
                                  ELSE discovery_registry
         /\ curator_registry' = IF curator_class THEN curator_registry \cup {t}
                                ELSE curator_registry
    /\ UNCHANGED <<active_services, config_files, initCalls, validateCalls, authCalls,
                   last_valid, last_auth, next_instance, mgrOp>>
    /\ UNCHANGED <<pipelineVars, storeVars, discVars, searchVars>>

(* the user edits or creates the <type>.env file *)
WriteConfig ==
    /\ svc = "manager"
    /\ \E t \in MgrTypes :
       \E c \in ConfigsOf(t) :
         /\ config_files[t] # c
         /\ config_files' = [config_files EXCEPT ![t] = c]
    /\ UNCHANGED <<service_registry, discovery_registry, curator_registry,
                   active_services, initCalls, validateCalls, authCalls, last_valid,
                   last_auth, next_instance, mgrOp>>
    /\ UNCHANGED <<pipelineVars, storeVars, discVars, searchVars>>

(* initialize_service(service_type); outcome is what authenticate() does    *)
(* when it is called.  mgrOp.raised tells that the call ended in            *)
(* MusicServiceError, mgrOp.result is the instance it returned otherwise.   *)
InitializeService ==
    /\ svc = "manager"
    /\ initCalls < MaxInits
    /\ initCalls' = initCalls + 1
    /\ \E t \in MgrTypes, outcome \in AuthOutcomes :
         IF t \notin service_registry
         THEN /\ mgrOp' = [op |-> "initialize_service", type |-> t,
                           raised |-> TRUE, result |-> 0, auth |-> "none"]
              /\ UNCHANGED <<active_services, validateCalls, authCalls, last_valid,
                             last_auth, next_instance>>
         ELSE IF AlreadyInitialized(active_services, t)
         THEN /\ mgrOp' = [op |-> "initialize_service", type |-> t,
                           raised |-> FALSE, result |-> active_services[t],
                           auth |-> "none"]
              /\ UNCHANGED <<active_services, validateCalls, authCalls, last_valid,
                             last_auth, next_instance>>
         ELSE LET config == config_files[t]
                  errors == ValidateConfig(t, config)
              IN  /\ validateCalls' = [validateCalls EXCEPT ![t] = @ + 1]
                  /\ last_valid' = [last_valid EXCEPT ![t] =
                                        IF errors = {} THEN "valid" ELSE "invalid"]
                  /\ IF ~IsValid(errors)
                     THEN /\ mgrOp' = [op |-> "initialize_service", type |-> t,
                                       raised |-> TRUE, result |-> 0, auth |-> "none"]
                          /\ UNCHANGED <<active_services, authCalls, last_auth,
                                         next_instance>>
                     ELSE /\ authCalls' = [authCalls EXCEPT ![t] = @ + 1]
                          /\ last_auth' = [last_auth EXCEPT ![t] = outcome]
                          /\ IF AuthSuccess(outcome)
                             THEN /\ active_services' =
                                         [x \in DOMAIN active_services \cup {t} |->
                                             IF x = t THEN next_instance
                                             ELSE active_services[x]]
                                  /\ next_instance' = next_instance + 1
                                  /\ mgrOp' = [op |-> "initialize_service", type |-> t,
                                               raised |-> FALSE,
                                               result |-> next_instance,
                                               auth |-> outcome]
                             ELSE /\ mgrOp' = [op |-> "initialize_service", type |-> t,
                                               raised |-> TRUE, result |-> 0,
                                               auth |-> outcome]
                                  /\ UNCHANGED <<active_services, next_instance>>
    /\ UNCHANGED <<service_registry, discovery_registry, curator_registry, config_files>>
    /\ UNCHANGED <<pipelineVars, storeVars, discVars, searchVars>>

(* get_curator(service_type) *)
GetCurator ==
    /\ svc = "manager"
    /\ \E t \in MgrTypes :
         mgrOp' = [op |-> "get_curator", type |-> t,
                   raised |-> (t \notin curator_registry \/ t \notin DOMAIN active_services),
                   result |-> IF t \notin curator_registry \/ t \notin DOMAIN active_services
                              THEN 0 ELSE active_services[t]]
    /\ UNCHANGED <<service_registry, discovery_registry, curator_registry,
                   active_services, config_files, initCalls, validateCalls, authCalls,
                   last_valid, last_auth, next_instance>>
    /\ UNCHANGED <<pipelineVars, storeVars, discVars, searchVars>>

(* get_discovery_engine(service_type) *)
GetDiscoveryEngine ==
    /\ svc = "manager"
    /\ \E t \in MgrTypes :
         mgrOp' = [op |-> "get_discovery_engine", type |-> t,
                   raised |-> (t \notin discovery_registry \/ t \notin DOMAIN active_services),
                   result |-> IF t \notin discovery_registry \/ t \notin DOMAIN active_services
                              THEN 0 ELSE active_services[t]]
    /\ UNCHANGED <<service_registry, discovery_registry, curator_registry,
                   active_services, config_files, initCalls, validateCalls, authCalls,
                   last_valid, last_auth, next_instance>>
    /\ UNCHANGED <<pipelineVars, storeVars, discVars, searchVars>>

NextManager ==
    \/ RegisterService
    \/ WriteConfig
    \/ InitializeService
    \/ GetCurator
    \/ GetDiscoveryEngine

SpecManager == InitManager /\ [][NextManager]_vars

----------------------------------------------------------------------------
(* Properties *)

(* the track at pool position i was last used less than 12 hours before scoring *)
SpBlocked(i) ==
    /\ pool[i].id \in DOMAIN loaded
    /\ now - loaded[pool[i].id].last_used < 12

(* C1: Spotify - a candidate last used less than 12 hours before scoring    *)
(* scores exactly 0.1 and is in the output of neither Pass 1 nor Pass 2.    *)
C1_RecencyBlock ==
    (svc = "spotify" /\ scored) =>
        \A i \in 1..Len(pool) :
            SpBlocked(i) => /\ scores[i] * 10 = Scale
                            /\ pool[i] \notin Range(pass1)
                            /\ pool[i] \notin Range(pass12)

(* a blocked candidate was left out while the passes selected another track *)
C1_Witness ==
    /\ svc = "spotify" /\ scored
    /\ \E i \in 1..Len(pool) : SpBlocked(i)
    /\ pass12 # <<>>

(* the track at pool position i is in today's history bucket *)
YtUsedToday(i) ==
    /\ DateOf(now) \in DOMAIN loaded
    /\ \E k \in 1..Len(loaded[DateOf(now)].tracks) :
           loaded[DateOf(now)].tracks[k].id = pool[i].id

(* C2: YouTube - a track of today's bucket scores exactly 1.0 and is in the *)
(* output of neither selection pass.                                        *)
C2_TodayExcluded ==
    (svc = "youtube" /\ scored) =>
        \A i \in 1..Len(pool) :
            YtUsedToday(i) => /\ scores[i] = Scale
                              /\ pool[i] \notin Range(pass12)

(* the reference tracks the selector kept before any discovery *)
RefSelected == IF scored THEN pass12 ELSE selected

(* C3: discovery is invoked exactly when Pass 1 and Pass 2 leave the        *)
(* selection short of the target, so always when the pool is smaller than   *)
(* the target.                                                              *)
C3_DiscoveryIffShort ==
    (svc \in {"spotify", "youtube"} /\ pc = "selected") =>
        /\ discInvoked <=> (Len(RefSelected) < target)
        /\ Len(pool) < target => discInvoked

(* the track-ID-keyed records of a history of the running curator *)
Tracks(h) ==
    IF svc = "enhanced" THEN (IF DOMAIN h = {} THEN <<>> ELSE h.tracks) ELSE h

CountIn(tr, id) == IF id \in DOMAIN tr THEN tr[id].count ELSE 0

Occurrences(sel, id) == Cardinality({k \in 1..Len(sel) : sel[k].id = id})

(* a step of _update_usage_history on the track-ID-keyed stores *)
IdRecordStep ==
    svc \in {"spotify", "enhanced"} /\ pc = "selected" /\ pc' = "recorded"

(* C4 as stated: record raises the count of each track of the selection by  *)
(* exactly 1 per run.                                                       *)
C4_CountPlusOne ==
    [][IdRecordStep =>
        \A id \in {selected[k].id : k \in 1..Len(selected)} :
            CountIn(Tracks(usage_history'), id) = CountIn(Tracks(usage_history), id) + 1]_vars

(* C4 amended: record raises the count of a track by 1 for each of its      *)
(* occurrences in the selection, stamps last_used with the run's time,      *)
(* creates a record with first_used = now for an unseen ID, keeps           *)
(* first_used otherwise, and leaves every other record alone.               *)
C4_RecordCounts ==
    [][IdRecordStep =>
        \A id \in TrackIds :
            LET old == Tracks(usage_history)
                new == Tracks(usage_history')
                n == Occurrences(selected, id)
            IN  /\ CountIn(new, id) = CountIn(old, id) + n
                /\ n > 0 => /\ new[id].last_used = now
                            /\ id \notin DOMAIN old => new[id].first_used = now
                            /\ id \in DOMAIN old => new[id].first_used = old[id].first_used
                /\ n = 0 => /\ (id \in DOMAIN new) <=> (id \in DOMAIN old)
                            /\ id \in DOMAIN old => new[id] = old[id]]_vars

(* a track already in the loaded history was recorded again, one occurrence *)
C4_Witness ==
    /\ svc \in {"spotify", "enhanced"} /\ pc = "recorded"
    /\ \E id \in DOMAIN Tracks(loaded) :
           /\ Occurrences(selected, id) = 1
           /\ Tracks(usage_history)[id].count = Tracks(loaded)[id].count + 1
           /\ Tracks(usage_history)[id].last_used = now

(* the use count the selector reads for a track *)
ReadCount(h, track) ==
    IF svc = "spotify" THEN SpUsageCount(h, track.id) ELSE YtUsageCount(track, h)

(* C5: from one run's load to the next run's load the use count read for a  *)
(* track never decreases, in the ID-keyed and in the date-keyed store.      *)
C5_CountNonDecreasing ==
    [][(svc \in {"spotify", "youtube"} /\ pc = "fetched" /\ pc' = "loaded") =>
        \A track \in RefCatalogue \cup DiscCatalogue :
            ReadCount(loaded', track) >= ReadCount(loaded, track)]_vars

SetMax(S) == CHOOSE d \in S : \A e \in S : e <= d

(* C6: after the same record operations the date-keyed store gives every    *)
(* track the same use count and the same most-recent-use date as the        *)
(* ID-keyed store.                                                          *)
C6_StoresAgree ==
    \A track \in {T1, T2} :
        /\ SpUsageCount(idStore, track.id) = YtUsageCount(track, dateStore)
        /\ track.id \in DOMAIN idStore =>
              /\ YtUsedDates(track, dateStore) # {}
              /\ DateOf(idStore[track.id].last_used) = SetMax(YtUsedDates(track, dateStore))

(* C7: after a save no entry older than the retention window (60 days for   *)
(* the date-keyed store, 90 days for the ID-keyed stores) is in the file,   *)
(* and every entry inside the window is in the file as it is in memory.     *)
C7_PruneOnSave ==
    (writes > 0 /\ file.status = "ok") =>
        CASE svc = "youtube" ->
                /\ \A d \in DOMAIN file.data : DateOf(now) - d <= 60
                /\ \A d \in DOMAIN usage_history :
                       DateOf(now) - d <= 60 =>
                           d \in DOMAIN file.data /\ file.data[d] = usage_history[d]
          [] svc \in {"spotify", "enhanced"} ->
                /\ \A id \in DOMAIN Tracks(file.data) :
                       now - Tracks(file.data)[id].last_used <= 90 * 24
                /\ \A id \in DOMAIN Tracks(usage_history) :
                       now - Tracks(usage_history)[id].last_used <= 90 * 24 =>
                           /\ id \in DOMAIN Tracks(file.data)
                           /\ Tracks(file.data)[id] = Tracks(usage_history)[id]
          [] OTHER -> TRUE

(* C8: in every usage record, in memory and on disk, last_used is not       *)
(* older than first_used.                                                   *)
C8_LastNotBeforeFirst ==
    svc \in {"spotify", "enhanced"} =>
        /\ \A id \in DOMAIN Tracks(usage_history) :
               Tracks(usage_history)[id].last_used >= Tracks(usage_history)[id].first_used
        /\ file.status = "ok" =>
               \A id \in DOMAIN Tracks(file.data) :
                   Tracks(file.data)[id].last_used >= Tracks(file.data)[id].first_used

(* a record made in one run was stamped again by a later run *)
C8_Witness ==
    /\ svc \in {"spotify", "enhanced"} /\ pc = "recorded"
    /\ \E id \in DOMAIN Tracks(usage_history) :
           /\ Tracks(usage_history)[id].count >= 2
           /\ Tracks(usage_history)[id].last_used > Tracks(usage_history)[id].first_used

(* C9: load never raises, and with a missing or unparsable file it returns  *)
(* the empty initial history.                                               *)
C9_LoadTolerant ==
    [][pc = "fetched" =>
        /\ pc' = "loaded"
        /\ file.status # "ok" =>
              usage_history' = IF svc = "enhanced" THEN EnDefaultHistory
                               ELSE EmptyHistory]_vars

(* a run went on past the load of an unparsable file with an empty history *)
C9_Witness ==
    /\ pc = "selected"
    /\ file.status = "corrupt"
    /\ DOMAIN Tracks(loaded) = {}

(* C10: a run reads the history file exactly once and writes it at most     *)
(* once, with no read after the write.                                      *)
C10_SingleReadWrite ==
    /\ reads <= 1
    /\ writes <= 1
    /\ pc = "done" => reads = 1
    /\ \A i, j \in 1..Len(log) : (log[i] = "write" /\ log[j] = "read") => j < i

(* C11: in every run the history is on disk before the first               *)
(* playlist-write call is issued.                                           *)
C11_PersistBeforePlaylist ==
    \A j \in 1..Len(log) :
        log[j] = "playlist" => \E i \in 1..(j - 1) : log[i] = "write"

(* number of tracks of sel that list the artist name a *)
ArtistOccurrences(sel, a) ==
    Cardinality({i \in 1..Len(sel) : a \in Range(SplitArtists(sel[i].artist))})

(* C12: with cap C = max(1, target div 10) no artist is on more than C of   *)
(* the tracks accepted by Pass 1.                                           *)
C12_ArtistCap ==
    (svc \in {"spotify", "youtube"} /\ scored) =>
        \A i \in 1..Len(pass1) :
            \A a \in Range(SplitArtists(pass1[i].artist)) :
                ArtistOccurrences(pass1, a) <= Max(1, target \div 10)

(* the score of a reference track (its first entry in the pool) *)
ScoreOf(track) == scores[CHOOSE i \in 1..Len(pool) : pool[i] = track]

(* the tracks the second pass added *)
Pass2Part == SubSeq(pass12, Len(pass1) + 1, Len(pass12))

(* a reference track the second pass could have taken: not taken by the    *)
(* first pass and, in the Spotify selector, passing the fallback test      *)
Pass2Eligible(track) ==
    /\ track \notin Range(pass1)
    /\ svc = "spotify" =>
          /\ ScoreOf(track) > 10 * Scale
          /\ \/ track.id \notin DOMAIN loaded
             \/ now - loaded[track.id].last_used >= 12
             \/ loaded[track.id].count <= 2

(* C13: the second pass takes the remaining eligible tracks in descending   *)
(* score order, so no eligible track left out outscores a track it took.    *)
C13_Pass2ScoreOrder ==
    (svc \in {"spotify", "youtube"} /\ scored) =>
        /\ \A k, l \in 1..Len(Pass2Part) :
               k < l => ScoreOf(Pass2Part[k]) >= ScoreOf(Pass2Part[l])
        /\ \A x \in Range(Pass2Part) :
               \A y \in Range(pool) \ Range(pass12) :
                   Pass2Eligible(y) => ScoreOf(y) <= ScoreOf(x)

(* C14: the first floor(0.7 * n) tracks of the returned list are in        *)
(* descending score order.                                                  *)
C14_StablePrefix ==
    (svc \in {"spotify", "youtube"} /\ pc = "selected" /\ scored /\ truly_fresh = <<>>) =>
        LET k == (Len(selected) * 7) \div 10
        IN  \A i, j \in 1..k :
                i < j => ScoreOf(selected[i]) >= ScoreOf(selected[j])

(* C15: the selector never returns more than target_size tracks.            *)
C15_AtMostTarget ==
    (svc \in {"spotify", "youtube"} /\ pc = "selected") => Len(selected) <= target

(* the passes left the selection short and discovery filled it to the      *)
(* target exactly                                                          *)
C15_Witness ==
    /\ svc \in {"spotify", "youtube"} /\ pc = "selected"
    /\ Len(pass12) < target
    /\ truly_fresh # <<>>
    /\ Len(selected) = target

(* the track IDs present in a loaded usage history *)
HistoryIds(h) ==
    IF svc = "youtube"
    THEN UNION {{h[d].tracks[k].id : k \in 1..Len(h[d].tracks)} : d \in DOMAIN h}
    ELSE DOMAIN h

(* C16: every track taken from discovery has an ID that is not in the       *)
(* reference pool, not in the usage history and not already in the          *)
(* selection.                                                               *)
C16_DiscoveryFresh ==
    (svc \in {"spotify", "youtube"} /\ pc = "selected") =>
        \A k \in 1..Len(truly_fresh) :
            /\ truly_fresh[k].id \notin {pool[i].id : i \in 1..Len(pool)}
            /\ truly_fresh[k].id \notin HistoryIds(loaded)
            /\ truly_fresh[k].id \notin {pass12[i].id : i \in 1..Len(pass12)}
            /\ \A l \in 1..Len(truly_fresh) :
                   l # k => truly_fresh[l].id # truly_fresh[k].id

(* discovery supplied a track to a run whose history already holds a       *)
(* discovered track                                                        *)
C16_Witness ==
    /\ svc \in {"spotify", "youtube"} /\ pc = "selected"
    /\ truly_fresh # <<>>
    /\ HistoryIds(loaded) \cap {D1.id, D2.id} # {}

(* C17: no discovery track spliced into the Spotify selection is in the     *)
(* taste profile's known-track-id set (reference, saved and recently        *)
(* played tracks).                                                          *)
C17_KnownExcluded ==
    (svc = "spotify" /\ pc = "selected") =>
        \A k \in 1..Len(truly_fresh) : truly_fresh[k].id \notin KnownTrackIds(pool)

(* C18: every score is strictly positive, at least 0.1 in the Spotify       *)
(* selector and at least 1.0 in the YouTube selector.                       *)
C18_ScoreFloor ==
    (svc \in {"spotify", "youtube"} /\ scored) =>
        \A i \in 1..Len(scores) :
            /\ scores[i] > 0
            /\ svc = "spotify" => scores[i] * 10 >= Scale
            /\ svc = "youtube" => scores[i] >= Scale

(* a track whose sum is negative before the clamp was scored: one used     *)
(* today, by the YouTube selector, or one used six times, last twelve      *)
(* hours ago, by the Spotify selector                                      *)
C18_Witness ==
    /\ scored
    /\ \E i \in 1..Len(pool) :
           \/ /\ svc = "youtube"
              /\ YtUsedToday(i)
              /\ scores[i] = Scale
           \/ /\ svc = "spotify"
              /\ pool[i].id \in DOMAIN loaded
              /\ loaded[pool[i].id].count = 6
              /\ now - loaded[pool[i].id].last_used = 12
              /\ scores[i] * 10 = Scale

(* C19: a discovery operation never raises because few or no tracks         *)
(* survived its filters, and it returns at most the requested count.        *)
C19_BestEffort ==
    discOp # "none" =>
        /\ pc # "raised"
        /\ pc = "returned" => Len(final_tracks) <= target

(* track.name.lower().strip() *)
NormalizedName(track) == Strip(Lower(track.name))

(* C20: the deduplicated candidates have pairwise different IDs and         *)
(* pairwise different normalized names, and they are the first occurrences  *)
(* of the combined search results, in the original order.                   *)
C20_Deduplicated ==
    discOp # "none" =>
        /\ \A i, j \in 1..Len(unique_tracks) :
               i # j => /\ unique_tracks[i].id # unique_tracks[j].id
                        /\ NormalizedName(unique_tracks[i]) # NormalizedName(unique_tracks[j])
        /\ \E f \in [1..Len(unique_tracks) -> 1..Len(discovered_tracks)] :
               /\ \A i, j \in 1..Len(unique_tracks) : i < j => f[i] < f[j]
               /\ \A i \in 1..Len(unique_tracks) : unique_tracks[i] = discovered_tracks[f[i]]
               /\ \A k \in 1..Len(discovered_tracks) :
                      \E i \in 1..Len(unique_tracks) :
                          /\ f[i] <= k
                          /\ \/ unique_tracks[i].id = discovered_tracks[k].id
                             \/ NormalizedName(unique_tracks[i]) = NormalizedName(discovered_tracks[k])

(* the slow_words a lowercased title contains *)
SlowWordsIn(lname) ==
    IF lname \in {"calm waters", "calm dance"} THEN {"calm"} ELSE {}

(* the candidate passes every test of the freshness filter other than the   *)
(* slow-word test                                                           *)
PassesOtherFilters(tr) ==
    /\ tr.id \notin ProfileGet(taste_profile, "known_track_ids", {})
    /\ NormalizedName(tr) \notin ProfileGet(taste_profile, "reference_track_names", {})
    /\ tr.id \notin YtLoadUsedTrackIds(file)
    /\ HasEdmWords(NormalizedName(tr)) =>
           EdmLike \cap (ProfileGet(taste_profile, "genres", {})
                         \cup ProfileGet(taste_profile, "taste_tokens", {})) # {}

(* C21: a discovery candidate whose title holds a low-energy keyword that   *)
(* is not a taste token is dropped; one whose low-energy keywords are all   *)
(* taste tokens is not dropped for them, so it is returned when it passes   *)
(* the other tests and the result has room.                                 *)
C21_AdaptiveFilter ==
    (svc = "youtube" /\ discOp \in {"discover_tracks", "discover_new_playlist"}) =>
        \A tr \in Range(unique_tracks) :
            LET keywords == SlowWordsIn(NormalizedName(tr))
                tokens == ProfileGet(taste_profile, "taste_tokens", {})
            IN  /\ keywords \ tokens # {} => tr \notin Range(final_tracks)
                /\ (/\ keywords # {}
                    /\ keywords \subseteq tokens
                    /\ PassesOtherFilters(tr)
                    /\ Len(final_tracks) < target) => tr \in Range(final_tracks)

(* the fields of a taste profile *)
ProfileFields ==
    {"artists", "genres", "known_track_ids", "reference_track_names",
     "taste_tokens", "track_count"}

(* C22: taste analysis of an empty reference playlist, reachable or not,    *)
(* returns a profile that has every field, each empty or zero, and does     *)
(* not raise.                                                               *)
C22_EmptyProfile ==
    (discOp = "analyze_taste_profile" /\ pool = <<>>) =>
        /\ pc = "returned"
        /\ ProfileFields \subseteq DOMAIN taste_profile
        /\ \A k \in ProfileFields \cap DOMAIN taste_profile :
               taste_profile[k] = IF k = "track_count" THEN 0 ELSE {}

(* C23: in a search batch in which a call raised and that did not stop at   *)
(* its target, every call of the batch was issued and every track a         *)
(* successful call returned, unless excluded by ID, is in the batch result. *)
C23_FailureIsolation ==
    (/\ discOp \in {"_search_by_artists", "_search_hidden_gems"}
     /\ \E c \in DOMAIN responses : responses[c] = "raise"
     /\ discOp = "_search_by_artists" => Len(batch_tracks) < target) =>
        /\ issued = DOMAIN responses
        /\ \A c \in DOMAIN responses :
               responses[c] # "raise" =>
                   \A k \in 1..Len(responses[c]) :
                       responses[c][k].id \notin existing_video_ids =>
                           responses[c][k] \in Range(batch_tracks)

(* C24: a curate or discover run on a reference playlist with zero tracks   *)
(* ends with an error and issues no playlist call and no history write.     *)
C24_EmptyReferenceFatal ==
    (pool = <<>> /\ (runs > 0 \/ discOp = "discover_new_playlist")) =>
        /\ pc = "failed"
        /\ apiWrites = 0
        /\ writes = 0

(* C25: an initialize_service call whose validate_config reports an error   *)
(* ends in MusicServiceError, calls authenticate() not once and leaves the  *)
(* active services as they were.                                            *)
C25_InvalidConfigStops ==
    [][\A t \in MgrTypes :
          (/\ initCalls' = initCalls + 1
           /\ mgrOp'.type = t
           /\ validateCalls'[t] = validateCalls[t] + 1
           /\ ValidateConfig(t, config_files[t]) # {})
          => /\ mgrOp'.raised
             /\ authCalls' = authCalls
             /\ active_services' = active_services]_vars

(* a registered service with the template file was refused before any       *)
(* authenticate() call                                                      *)
C25_Witness ==
    /\ mgrOp.op = "initialize_service"
    /\ mgrOp.raised
    /\ mgrOp.type \in service_registry
    /\ config_files[mgrOp.type] = TemplateConfig(mgrOp.type)
    /\ last_valid[mgrOp.type] = "invalid"
    /\ authCalls[mgrOp.type] = 0

(* C26: every active service is registered, had its configuration accepted  *)
(* and its authenticate() return true; an initialize_service call whose     *)
(* authenticate() returns false or raises ends in MusicServiceError with    *)
(* the active services unchanged; get_curator and get_discovery_engine end  *)
(* in MusicServiceError for a service that is not active.                   *)
C26_ActiveOnlyAuthenticated ==
    /\ [](\A t \in DOMAIN active_services :
              /\ t \in service_registry
              /\ last_valid[t] = "valid"
              /\ last_auth[t] = "true")
    /\ []((/\ mgrOp.op \in {"get_curator", "get_discovery_engine"}
           /\ mgrOp.type \notin DOMAIN active_services)
          => mgrOp.raised)
    /\ [][(/\ initCalls' = initCalls + 1
           /\ mgrOp'.auth \in {"false", "raise"})
          => /\ mgrOp'.raised
             /\ active_services' = active_services]_vars

(* one service is active and the initialisation of the other one failed in  *)
(* authenticate()                                                           *)
C26_Witness ==
    /\ mgrOp.op = "initialize_service"
    /\ mgrOp.auth \in {"false", "raise"}
    /\ mgrOp.raised
    /\ mgrOp.type \notin DOMAIN active_services
    /\ DOMAIN active_services # {}

(* C30: an initialize_service call for a service that is already active     *)
(* returns the cached instance and neither validates nor authenticates; a   *)
(* call that fails leaves no instance for its type, and a call for a        *)
(* registered type without instance validates the configuration anew.       *)
C30_InitializeIdempotent ==
    [][\A t \in MgrTypes :
          (initCalls' = initCalls + 1 /\ mgrOp'.type = t) =>
              /\ t \in DOMAIN active_services =>
                     /\ mgrOp'.result = active_services[t]
                     /\ validateCalls' = validateCalls
                     /\ authCalls' = authCalls
                     /\ active_services' = active_services
              /\ mgrOp'.raised =>
                     t \notin DOMAIN active_services'
              /\ (t \in service_registry /\ t \notin DOMAIN active_services) =>
                     validateCalls'[t] = validateCalls[t] + 1]_vars

(* a first call failed, a second one succeeded after a new validation, and  *)
(* the third call returned the cached instance                              *)
C30_Witness ==
    /\ mgrOp.op = "initialize_service"
    /\ initCalls = 3
    /\ mgrOp.type \in DOMAIN active_services
    /\ mgrOp.result = active_services[mgrOp.type]
    /\ mgrOp.auth = "none"
    /\ validateCalls[mgrOp.type] = 2
    /\ authCalls[mgrOp.type] = 1

(* C27: in the Spotify scoring function the use count adds 80, 40, 15 and  *)
(* -20 for counts 0, 1, 2 and 3 and -15 * n for n >= 4, a strictly         *)
(* decreasing term; a pool track scored without jitter against two          *)
(* histories that differ only in its count never scores higher with the     *)
(* larger count.                                                            *)
C27_UsageTermDecreasing ==
    (svc = "spotify" /\ scored) =>
        /\ SpUsageTerm(0) = 80
        /\ SpUsageTerm(1) = 40
        /\ SpUsageTerm(2) = 15
        /\ SpUsageTerm(3) = -20
        /\ \A n \in 4..MaxCount : SpUsageTerm(n) = -15 * n
        /\ \A a, b \in 0..MaxCount : a < b => SpUsageTerm(a) > SpUsageTerm(b)
        /\ \A i \in 1..Len(pool) : \A a, b \in 1..MaxCount :
             \A last \in {l \in SelectTimes : l <= now} :
               LET id == pool[i].id
                   with(c) == [x \in DOMAIN loaded \cup {id} |->
                                 IF x = id
                                 THEN [count |-> c, first_used |-> 0, last_used |-> last]
                                 ELSE loaded[x]]
               IN  a < b =>
                     SpCalculateTrackScore(pool[i], with(a), pool, now, 0)
                       >= SpCalculateTrackScore(pool[i], with(b), pool, now, 0)

(* the selector scored a track used six times and a never-used track of     *)
(* the same pool, and the never-used one scored higher                      *)
C27_Witness ==
    /\ svc = "spotify"
    /\ scored
    /\ \E i, j \in 1..Len(pool) :
           /\ SpUsageCount(loaded, pool[i].id) = 6
           /\ SpUsageCount(loaded, pool[j].id) = 0
           /\ scores[i] < scores[j]

(* the selected tracks at positions 1..n that have no record in the history *)
(* the run loaded                                                           *)
NoPriorRecord(n) ==
    {k \in 1..n :
        CASE svc = "spotify" -> selected[k].id \notin DOMAIN loaded
          [] svc = "enhanced" -> selected[k].id \notin DOMAIN loaded.tracks
          [] OTHER -> \A d \in DOMAIN loaded : ~YtIdInBucket(selected[k], loaded[d])}

(* C28: the freshness statistics of a run classify every selected track by  *)
(* its usage before the run recorded its selection: the tracks counted as   *)
(* never used (Spotify, enhanced) or as not previously / recently used      *)
(* (YouTube) include every selected track without a prior history record.   *)
C28_StatsBeforeRecord ==
    /\ (svc \in {"spotify", "enhanced"} /\ pc = "done") =>
           stats.never_used = Cardinality(NoPriorRecord(Len(selected)))
    /\ (svc = "youtube" /\ pc \in {"written", "done"}) =>
           /\ Len(selected) - stats.previously_used_count
                  = Cardinality(NoPriorRecord(Len(selected)))
           /\ stats.actual_track_count - stats.recently_used
                  >= Cardinality(NoPriorRecord(stats.actual_track_count))

(* no track ID occurs twice in the list s *)
DistinctIds(s) == \A i, j \in 1..Len(s) : i # j => s[i].id # s[j].id

(* C29: when the reference pool has pairwise distinct track IDs, the list   *)
(* the selector returns holds no track ID twice, and neither does the       *)
(* first pass, the first and second pass together, or these with the        *)
(* discovery tracks appended.                                               *)
C29_NoDuplicateIds ==
    (svc \in {"spotify", "youtube"} /\ pc = "selected" /\ DistinctIds(pool)) =>
        /\ DistinctIds(selected)
        /\ DistinctIds(pass1)
        /\ DistinctIds(pass12)
        /\ DistinctIds(pass12 \o truly_fresh)

(* the returned list holds a track of the first pass, a track added by the  *)
(* second pass and a discovery track                                        *)
C29_Witness ==
    /\ svc \in {"spotify", "youtube"}
    /\ pc = "selected"
    /\ DistinctIds(pool)
    /\ Len(pass1) > 0
    /\ Len(pass12) > Len(pass1)
    /\ Len(truly_fresh) > 0
    /\ Len(selected) = Len(pass12) + Len(truly_fresh)

====
